---------------------------- MODULE Spec2Model ----------------------------
(***************************************************************************)
(* A model of the auto-commit tool: the diff compressor and the code       *)
(* reviewer (src/code_reviewer.py), the readers of the repository          *)
(* (src/git_analyzer.py) and the run of the program (main() of             *)
(* src/auto_commit.py, with ConfigManager.validate and the provider        *)
(* invocations), for checking the statements its specification makes       *)
(* about them.  The source is read as Python 3.12 reads it.                *)
(*                                                                         *)
(* Strings.  A Python str is modelled as a sequence of characters, each    *)
(* character a one-element TLA+ string: "if x" is <<"i","f"," ","x">>.     *)
(* A character outside ASCII is written by its code point, "U+C81C" (so is *)
(* the backquote, "U+0060"), and counts as one character, as it does for   *)
(* Python's len().  The newline                                            *)
(* is the character "\n"; split, join, strip, lower, startswith, `in' and  *)
(* slicing are operators on these sequences that compute what the Python   *)
(* built-ins compute.                                                      *)
(***************************************************************************)
EXTENDS Integers, Sequences, FiniteSets, TLC

VARIABLES
    changes,         \* List[FileChange]: the argument of compress / review, or the
                     \* list get_staged_changes / get_unstaged_changes returned
    level,           \* the review level: "quick", "normal" or "detailed"
    pc,              \* "start", then the operation that ran
    report,          \* what DiffCompressor.compress returned
    review_result,   \* what CodeReviewer.review returned, or that it raised
    provider_calls,  \* the calls of provider.review_code, in order
    line,            \* the argument of _is_important_line
    accepted,        \* what _is_important_line returned
    repo,            \* the repository the readers of GitAnalyzer read
    change_set,      \* the GitChanges that get_all_changes returned
    run,             \* one run of main(): its arguments, its position, its effects
    configs          \* the ConfigManager class and the managers built in one process

vars == <<changes, level, pc, report, review_result, provider_calls, line, accepted,
          repo, change_set, run, configs>>

(***************************************************************************)
(* Python's built-ins on str and list                                      *)
(***************************************************************************)

\* str.isspace() of one character: what str.strip() removes
Whitespace == {" ", "\t", "\n", "\r", "\f", "U+000B"}

UpperToLower ==
    [c \in {"A","B","C","D","E","F","G","H","I","J","K","L","M",
            "N","O","P","Q","R","S","T","U","V","W","X","Y","Z"} |->
        CASE c = "A" -> "a" [] c = "B" -> "b" [] c = "C" -> "c" [] c = "D" -> "d"
          [] c = "E" -> "e" [] c = "F" -> "f" [] c = "G" -> "g" [] c = "H" -> "h"
          [] c = "I" -> "i" [] c = "J" -> "j" [] c = "K" -> "k" [] c = "L" -> "l"
          [] c = "M" -> "m" [] c = "N" -> "n" [] c = "O" -> "o" [] c = "P" -> "p"
          [] c = "Q" -> "q" [] c = "R" -> "r" [] c = "S" -> "s" [] c = "T" -> "t"
          [] c = "U" -> "u" [] c = "V" -> "v" [] c = "W" -> "w" [] c = "X" -> "x"
          [] c = "Y" -> "y" [] c = "Z" -> "z"]

\* s.lower()
Lower(s) == [i \in 1..Len(s) |-> IF s[i] \in DOMAIN UpperToLower THEN UpperToLower[s[i]] ELSE s[i]]

\* s[:n]
Take(s, n) == IF Len(s) <= n THEN s ELSE SubSeq(s, 1, n)

\* s[n:]
Drop(s, n) == IF Len(s) <= n THEN <<>> ELSE SubSeq(s, n + 1, Len(s))

\* s.startswith(p)
StartsWith(s, p) == Len(p) <= Len(s) /\ \A i \in 1..Len(p) : s[i] = p[i]

\* p in s
Contains(s, p) ==
    \E k \in 0..(Len(s) - Len(p)) : \A i \in 1..Len(p) : s[k + i] = p[i]

\* s.lstrip(chars): the first index not in chars, Len(s)+1 when there is none
FirstNotIn(s, chars) ==
    IF \A i \in 1..Len(s) : s[i] \in chars THEN Len(s) + 1
    ELSE CHOOSE i \in 1..Len(s) : s[i] \notin chars /\ \A j \in 1..(i - 1) : s[j] \in chars

LastNotIn(s, chars) ==
    IF \A i \in 1..Len(s) : s[i] \in chars THEN 0
    ELSE CHOOSE i \in 1..Len(s) : s[i] \notin chars /\ \A j \in (i + 1)..Len(s) : s[j] \in chars

LStrip(s, chars) == SubSeq(s, FirstNotIn(s, chars), Len(s))

\* s.strip()
Strip(s) == SubSeq(s, FirstNotIn(s, Whitespace), LastNotIn(s, Whitespace))

\* the least k >= i with s[k] = c, Len(s)+1 when there is none
FindFrom(s, c, i) ==
    IF \E k \in i..Len(s) : s[k] = c
    THEN CHOOSE k \in i..Len(s) : s[k] = c /\ \A j \in i..(k - 1) : s[j] # c
    ELSE Len(s) + 1

\* s[i-1:].split(c), for a one-character separator c
RECURSIVE SplitFrom(_, _, _)
SplitFrom(s, c, i) ==
    LET j == FindFrom(s, c, i) IN
    IF j > Len(s) THEN << SubSeq(s, i, Len(s)) >>
    ELSE << SubSeq(s, i, j - 1) >> \o SplitFrom(s, c, j + 1)

\* s.split(c)
Split(s, c) == SplitFrom(s, c, 1)

\* sep.join(parts)
RECURSIVE Join(_, _)
Join(parts, sep) ==
    IF parts = <<>> THEN <<>>
    ELSE IF Len(parts) = 1 THEN parts[1]
    ELSE parts[1] \o sep \o Join(Tail(parts), sep)

DecimalDigits == <<"0","1","2","3","4","5","6","7","8","9">>

\* str(n) for n >= 0, as an f-string formats an int
RECURSIVE IntToStr(_)
IntToStr(n) ==
    IF n < 10 THEN << DecimalDigits[n + 1] >>
    ELSE IntToStr(n \div 10) \o << DecimalDigits[(n % 10) + 1] >>

\* sum(f.insertions for f in files), sum(f.deletions for f in files)
RECURSIVE SumInsertions(_)
SumInsertions(files) ==
    IF files = <<>> THEN 0 ELSE Head(files).insertions + SumInsertions(Tail(files))

RECURSIVE SumDeletions(_)
SumDeletions(files) ==
    IF files = <<>> THEN 0 ELSE Head(files).deletions + SumDeletions(Tail(files))

(***************************************************************************)
(* ReviewLevel                                                             *)
(***************************************************************************)

QUICK == "quick"
NORMAL == "normal"
DETAILED == "detailed"

(***************************************************************************)
(* DiffCompressor._is_important_line                                       *)
(***************************************************************************)

skip_patterns ==
    << <<"i","m","p","o","r","t"," ">>, <<"f","r","o","m"," ">>, <<"#">>, <<"/","/">>, <<"/","*">>, <<"*","/">>,
       <<"{">>, <<"}">>, <<"(">>, <<")">>, <<"[">>, <<"]">>, <<";">>,
       <<"\"","\"","\"">>, <<"'","'","'">>, <<"p","a","s","s">>, <<"c","o","n","s","o","l","e",".","l","o","g">> >>

important_patterns ==
    << <<"d","e","f"," ">>, <<"c","l","a","s","s"," ">>, <<"f","u","n","c","t","i","o","n"," ">>, <<"r","e","t","u","r","n"," ">>,
       <<"i","f"," ">>, <<"e","l","s","e">>, <<"f","o","r"," ">>, <<"w","h","i","l","e"," ">>, <<"t","r","y">>, <<"c","a","t","c","h">>,
       <<"=">>, <<"a","w","a","i","t"," ">>, <<"a","s","y","n","c"," ">>, <<"@">> >>

_is_important_line(l) ==
    IF l = <<>> \/ Len(l) < 3 THEN FALSE
    ELSE LET line_lower == Strip(Lower(l)) IN
         IF \E k \in DOMAIN skip_patterns :
                StartsWith(line_lower, skip_patterns[k]) \/ line_lower = skip_patterns[k]
         THEN FALSE
         ELSE \E k \in DOMAIN important_patterns : Contains(l, important_patterns[k])

(***************************************************************************)
(* DiffCompressor._extract_signatures, _extract_key_changes                *)
(***************************************************************************)

signature_keywords ==
    << <<"d","e","f"," ">>, <<"c","l","a","s","s"," ">>, <<"f","u","n","c","t","i","o","n"," ">>, <<"c","o","n","s","t"," ">>, <<"l","e","t"," ">>, <<"v","a","r"," ">>,
       <<"p","u","b","l","i","c"," ">>, <<"p","r","i","v","a","t","e"," ">>, <<"p","r","o","t","e","c","t","e","d"," ">>, <<"a","s","y","n","c"," ">>, <<"@">> >>

IsSignature(clean) ==
    /\ \E k \in DOMAIN signature_keywords : Contains(clean, signature_keywords[k])
    /\ (Contains(clean, <<"(">>) \/ Contains(clean, <<"c","l","a","s","s"," ">>))

RECURSIVE SignatureLoop(_, _, _)
SignatureLoop(lines, i, signatures) ==
    IF i > Len(lines) THEN signatures
    ELSE LET clean == Strip(LStrip(lines[i], {"+"})) IN
         IF IsSignature(clean)
         THEN SignatureLoop(lines, i + 1, Append(signatures, Take(clean, 120)))
         ELSE SignatureLoop(lines, i + 1, signatures)

_extract_signatures(lines) == SignatureLoop(lines, 1, <<>>)

\* line.startswith('+') and not line.startswith('+++')
IsAddedLine(l) == StartsWith(l, <<"+">>) /\ ~StartsWith(l, <<"+","+","+">>)

\* line.startswith('-') and not line.startswith('---')
IsRemovedLine(l) == StartsWith(l, <<"-">>) /\ ~StartsWith(l, <<"-","-","-">>)

RECURSIVE KeyChangesLoop(_, _, _, _)
KeyChangesLoop(lines, i, key_lines, limit) ==
    IF i > Len(lines) THEN key_lines
    ELSE IF IsAddedLine(lines[i])
    THEN LET clean == Strip(Drop(lines[i], 1)) IN
         IF _is_important_line(clean)
         THEN LET appended == Append(key_lines, <<"+"," ">> \o Take(clean, 100)) IN
              IF Len(appended) >= limit THEN appended
              ELSE KeyChangesLoop(lines, i + 1, appended, limit)
         ELSE KeyChangesLoop(lines, i + 1, key_lines, limit)
    ELSE KeyChangesLoop(lines, i + 1, key_lines, limit)

\* the loop without its break: every important added line is kept, whatever the limit.
\* C8 tells it from _extract_key_changes.
_extract_key_changes_unlimited(diff, limit) ==
    KeyChangesLoop(Split(diff, "\n"), 1, <<>>, Len(diff) + 1)

_extract_key_changes(diff, limit) == KeyChangesLoop(Split(diff, "\n"), 1, <<>>, limit)

(***************************************************************************)
(* DiffCompressor._compress_diff_content                                   *)
(***************************************************************************)

\* the loop over the lines of a modified or deleted file: [additions, deletions]
RECURSIVE ChangedLinesLoop(_, _, _)
ChangedLinesLoop(lines, i, acc) ==
    IF i > Len(lines) THEN acc
    ELSE LET l == lines[i]
             clean_line == Strip(Drop(l, 1))
         IN
         IF IsAddedLine(l)
         THEN ChangedLinesLoop(lines, i + 1,
                  IF _is_important_line(clean_line)
                  THEN [acc EXCEPT !.additions = Append(@, <<"+"," ">> \o Take(clean_line, 100))]
                  ELSE acc)
         ELSE IF IsRemovedLine(l)
         THEN ChangedLinesLoop(lines, i + 1,
                  IF _is_important_line(clean_line)
                  THEN [acc EXCEPT !.deletions = Append(@, <<"-"," ">> \o Take(clean_line, 100))]
                  ELSE acc)
         ELSE ChangedLinesLoop(lines, i + 1, acc)

NEW_DEFINITIONS == <<"U+C0C8","U+B85C","U+C6B4"," ","U+C815","U+C758",":">>
REMOVED_MARKER == <<"U+C81C","U+AC70","U+B428",":">>
ADDED_MARKER == <<"U+CD94","U+AC00","U+B428",":">>

\* signatures[:8] read as signatures[:15] at every level.  C5 tells it from
\* AddedFileLines.
AddedFileLines_fifteen_at_every_level(diff, lvl) ==
    LET signatures == _extract_signatures(Split(diff, "\n")) IN
    IF signatures # <<>>
    THEN << NEW_DEFINITIONS >> \o Take(signatures, 15)
    ELSE _extract_key_changes(diff, 10)

\* the branch of a new file (change_type == 'A'): its signatures, or its key changes
AddedFileLines(diff, lvl) ==
    LET signatures == _extract_signatures(Split(diff, "\n")) IN
    IF signatures # <<>>
    THEN << NEW_DEFINITIONS >> \o Take(signatures, IF lvl = DETAILED THEN 15 ELSE 8)
    ELSE _extract_key_changes(diff, 10)

\* each list cut at max_lines instead of max_lines // 2.  C4 tells it from
\* ChangedFileLines.
ChangedFileLines_whole_limit(diff, lvl) ==
    LET found == ChangedLinesLoop(Split(diff, "\n"), 1,
                                  [additions |-> <<>>, deletions |-> <<>>])
        max_lines == IF lvl = DETAILED THEN 20 ELSE 10
    IN
    (IF found.deletions # <<>>
     THEN << REMOVED_MARKER >> \o Take(found.deletions, max_lines)
     ELSE <<>>)
    \o
    (IF found.additions # <<>>
     THEN << ADDED_MARKER >> \o Take(found.additions, max_lines)
     ELSE <<>>)

\* the branch of a modified or deleted file: the removed lines, then the added lines
ChangedFileLines(diff, lvl) ==
    LET found == ChangedLinesLoop(Split(diff, "\n"), 1,
                                  [additions |-> <<>>, deletions |-> <<>>])
        max_lines == IF lvl = DETAILED THEN 20 ELSE 10
    IN
    (IF found.deletions # <<>>
     THEN << REMOVED_MARKER >> \o Take(found.deletions, max_lines \div 2)
     ELSE <<>>)
    \o
    (IF found.additions # <<>>
     THEN << ADDED_MARKER >> \o Take(found.additions, max_lines \div 2)
     ELSE <<>>)

\* the list `result' of _compress_diff_content, before its last line joins it
DiffContentLines(diff, lvl, change_type) ==
    IF change_type = <<"A">>
    THEN AddedFileLines(diff, lvl)
    ELSE ChangedFileLines(diff, lvl)

\* a body of every line found: no list is cut and the result is not cut at 30 lines.
\* C7 tells it from _compress_diff_content.
_compress_diff_content_every_line(diff, lvl, change_type) ==
    LET lines == Split(diff, "\n")
        found == ChangedLinesLoop(lines, 1, [additions |-> <<>>, deletions |-> <<>>])
        signatures == _extract_signatures(lines)
    IN Join(IF change_type = <<"A">>
            THEN (IF signatures # <<>> THEN << NEW_DEFINITIONS >> \o signatures
                  ELSE found.additions)
            ELSE (IF found.deletions # <<>> THEN << REMOVED_MARKER >> \o found.deletions
                  ELSE <<>>)
                 \o (IF found.additions # <<>> THEN << ADDED_MARKER >> \o found.additions
                     ELSE <<>>),
            <<"\n">>)

_compress_diff_content(diff, lvl, change_type) ==
    Join(Take(DiffContentLines(diff, lvl, change_type), 30), <<"\n">>)

(***************************************************************************)
(* DiffCompressor._get_file_priority                                       *)
(***************************************************************************)

low_priority_patterns ==
    << <<"t","e","s","t","_">>, <<"_","t","e","s","t",".">>, <<".","t","e","s","t",".">>,
       <<"s","p","e","c",".">>, <<".","s","p","e","c",".">>,
       <<"c","o","n","f","i","g",".">>, <<"s","e","t","u","p",".">>, <<"r","e","q","u","i","r","e","m","e","n","t","s",".">>,
       <<".","m","d">>, <<".","t","x","t">>, <<".","y","m","l">>, <<".","y","a","m","l">>, <<".","j","s","o","n">>,
       <<"m","i","g","r","a","t","i","o","n">>, <<"_","_","i","n","i","t","_","_">> >>

high_priority_patterns ==
    << <<"s","e","r","v","i","c","e">>, <<"c","o","n","t","r","o","l","l","e","r">>, <<"a","p","i">>, <<"m","o","d","e","l">>,
       <<"h","a","n","d","l","e","r">>, <<"m","i","d","d","l","e","w","a","r","e">>, <<"a","u","t","h">>, <<"s","e","c","u","r","i","t","y">> >>

\* the two lists looked up in the other order: a path with a keyword of both lists is
\* tagged "high".  C3 tells it from _get_file_priority.
_get_file_priority_high_first(path) ==
    LET path_lower == Lower(path) IN
    IF \E k \in DOMAIN high_priority_patterns : Contains(path_lower, high_priority_patterns[k])
    THEN "high"
    ELSE IF \E k \in DOMAIN low_priority_patterns : Contains(path_lower, low_priority_patterns[k])
    THEN "low"
    ELSE "normal"

_get_file_priority(path) ==
    LET path_lower == Lower(path) IN
    IF \E k \in DOMAIN low_priority_patterns : Contains(path_lower, low_priority_patterns[k])
    THEN "low"
    ELSE IF \E k \in DOMAIN high_priority_patterns : Contains(path_lower, high_priority_patterns[k])
    THEN "high"
    ELSE "normal"

(***************************************************************************)
(* DiffCompressor._compress_summary                                        *)
(***************************************************************************)

\* change.path.split('.')[-1] if '.' in change.path else 'other'
Extension(path) ==
    IF Contains(path, <<".">>)
    THEN LET parts == Split(path, ".") IN parts[Len(parts)]
    ELSE <<"o","t","h","e","r">>

\* the keys of by_type, in the order the dict got them
RECURSIVE ExtensionOrder(_, _)
ExtensionOrder(files, seen) ==
    IF files = <<>> THEN seen
    ELSE LET ext == Extension(Head(files).path) IN
         IF \E k \in DOMAIN seen : seen[k] = ext
         THEN ExtensionOrder(Tail(files), seen)
         ELSE ExtensionOrder(Tail(files), Append(seen, ext))

\* by_type[ext]
FilesOfExtension(files, ext) ==
    LET HasExt(f) == Extension(f.path) = ext IN SelectSeq(files, HasExt)

\* the sort without reverse=True: smallest files first.  C2 tells it from SortedBySize.
SortedBySizeAscending(files) ==
    LET key(k) == files[k].insertions + files[k].deletions
        rank(k) == Cardinality({j \in DOMAIN files : key(j) < key(k)})
                   + Cardinality({j \in 1..(k - 1) : key(j) = key(k)}) + 1
    IN [r \in DOMAIN files |-> files[CHOOSE k \in DOMAIN files : rank(k) = r]]

\* sorted(files, key=lambda f: f.insertions + f.deletions, reverse=True):
\* by decreasing key, files of one key in their order in `files' (the sort is stable)
SortedBySize(files) ==
    LET key(k) == files[k].insertions + files[k].deletions
        rank(k) == Cardinality({j \in DOMAIN files : key(j) > key(k)})
                   + Cardinality({j \in 1..(k - 1) : key(j) = key(k)}) + 1
    IN [r \in DOMAIN files |-> files[CHOOSE k \in DOMAIN files : rank(k) = r]]

SUMMARY_TITLE == <<"U+26A0","U+FE0F"," "," ","U+B300","U+B7C9"," ","U+BCC0","U+ACBD"," ","U+AC10","U+C9C0"," ","-"," ","U+C694","U+C57D"," ","U+B9AC","U+BDF0","\n","\n">>

SummaryFileLine(f) ==
    <<" "," ","U+2022"," ">> \o f.path \o <<" ","(","+">> \o IntToStr(f.insertions) \o <<"/","-">>
        \o IntToStr(f.deletions) \o <<")","\n">>

SummaryGroup(files, ext) ==
    LET members == FilesOfExtension(files, ext)
        total_add == SumInsertions(members)
        total_del == SumDeletions(members)
        sorted_files == SortedBySize(members)
        shown == Take(sorted_files, 2)
    IN <<"U+1F4C1"," ",".">> \o ext \o <<" ","U+D30C","U+C77C",":"," ">> \o IntToStr(Len(members)) \o <<"U+AC1C"," ","(","+">>
           \o IntToStr(total_add) \o <<"/","-">> \o IntToStr(total_del) \o <<")","\n">>
           \o Join([k \in DOMAIN shown |-> SummaryFileLine(shown[k])], <<>>)

_compress_summary(files) ==
    LET order == ExtensionOrder(files, <<>>) IN
    SUMMARY_TITLE \o Join([k \in DOMAIN order |-> SummaryGroup(files, order[k])], <<>>)

(***************************************************************************)
(* DiffCompressor._compress_minimal                                        *)
(***************************************************************************)

MINIMAL_TITLE == <<"U+1F4DD"," ","U+BCC0","U+ACBD"," ","U+D30C","U+C77C",":","\n">>
KEY_CHANGES_MARKER == <<" "," ","U+D575","U+C2EC"," ","U+BCC0","U+ACBD",":","\n">>

MinimalFile(change) ==
    LET key_changes == _extract_key_changes(change.diff, 5) IN
    <<"\n","U+2022"," ">> \o change.path \o <<" ","(">> \o change.change_type \o <<")"," ","+">>
        \o IntToStr(change.insertions) \o <<"/","-">> \o IntToStr(change.deletions) \o <<"\n">>
        \o (IF key_changes # <<>>
            THEN KEY_CHANGES_MARKER
                 \o Join([k \in DOMAIN key_changes |-> <<" "," "," "," ">> \o key_changes[k] \o <<"\n">>], <<>>)
            ELSE <<>>)

_compress_minimal(files) ==
    MINIMAL_TITLE \o Join([k \in DOMAIN files |-> MinimalFile(files[k])], <<>>)

(***************************************************************************)
(* DiffCompressor._compress_smart                                          *)
(***************************************************************************)

SmartHeader(change) ==
    <<"\n","U+2501","U+2501","U+2501"," ">> \o change.path \o <<" ","(">> \o change.change_type \o <<")"," ","+">>
        \o IntToStr(change.insertions) \o <<"/","-">> \o IntToStr(change.deletions) \o <<"\n">>

SmartFile(change, lvl) ==
    IF _get_file_priority(change.path) = "low" /\ lvl = QUICK
    THEN <<>>
    ELSE SmartHeader(change)
         \o (IF change.diff # <<>>
             THEN _compress_diff_content(change.diff, lvl, change.change_type) \o <<"\n">>
             ELSE <<>>)

_compress_smart(files, lvl) ==
    Join([k \in DOMAIN files |-> SmartFile(files[k], lvl)], <<>>)

\* compress with the two thresholds read as "at least": 500 and 200 changed lines
\* already leave smart mode.  C1 tells it from compress.
compress_inclusive_thresholds(files, lvl) ==
    LET total_lines == SumInsertions(files) + SumDeletions(files) IN
    IF total_lines >= 500 /\ lvl # DETAILED THEN _compress_summary(files)
    ELSE IF total_lines >= 200 /\ lvl = QUICK THEN _compress_minimal(files)
    ELSE _compress_smart(files, lvl)

\* compress that never looks at the volume and always summarises.  C10 tells it
\* from compress.
compress_always_summary(files, lvl) ==
    _compress_summary(files)

(***************************************************************************)
(* DiffCompressor.compress                                                 *)
(***************************************************************************)

\* a compressor that keeps its text between calls (a result buffer that is an
\* attribute of the object instead of a local of the call)
compress_accumulating(files, lvl) ==
    report \o (IF files = <<>> THEN <<>> ELSE _compress_smart(files, lvl))

\* the list a call of compress leaves behind: compress and its helpers only read
\* the fields of the FileChanges, and _compress_summary orders each group with
\* sorted(), which builds a new list and leaves the group and `changes' as they were
changes_after_compress(files, lvl) == files

compress(files, lvl) ==
    LET total_lines == SumInsertions(files) + SumDeletions(files) IN
    IF total_lines > 500 /\ lvl # DETAILED THEN _compress_summary(files)
    ELSE IF total_lines > 200 /\ lvl = QUICK THEN _compress_minimal(files)
    ELSE _compress_smart(files, lvl)

(***************************************************************************)
(* The review providers: _build_prompt and its three templates (the same   *)
(* text in OpenAIReviewProvider, GeminiReviewProvider and                  *)
(* AnthropicReviewProvider)                                                *)
(***************************************************************************)

QUICK_REVIEW_PROMPT_HEAD ==
    <<"Q","u","i","c","k"," ","c","o","d","e"," ","r","e","v","i","e","w"," ","-"," ","O","N","L","Y"," ","r","e","p","o","r","t"," ","c","r","i","t","i","c","a","l"," ","i","s","s","u","e","s",":","\n","\n","C","o","d","e"," ","c","h","a","n","g","e","s",":","\n">>
QUICK_REVIEW_PROMPT_TAIL ==
    <<"\n","\n","F","o","c","u","s"," ","o","n",":","\n","U+274C"," ","B","u","g","s"," ","(","n","u","l","l"," ","p","o","i","n","t","e","r",","," ","l","o","g","i","c"," ","e","r","r","o","r","s",")","\n","U+26A0","U+FE0F"," "," ","S","e","c","u","r","i","t","y"," ","i","s","s","u","e","s","\n","U+1F525"," ","P","e","r","f","o","r","m","a","n","c","e"," ","p","r","o","b","l","e","m","s","\n","\n","F","o","r","m","a","t"," ","(","K","o","r","e","a","n",")",":","\n","-"," ","U","s","e"," ","U+2705","/","U+26A0","U+FE0F","/","U+274C"," ","s","y","m","b","o","l","s","\n","-"," ","M","a","x"," ","3"," ","i","t","e","m","s","\n","-"," ","B","e"," ","s","p","e","c","i","f","i","c"," ","a","n","d"," ","b","r","i","e","f","\n","\n","I","f"," ","n","o"," ","i","s","s","u","e","s",":"," ","\"","U+2705"," ","U+BB38","U+C81C"," ","U+C5C6","U+C74C","\"","\n">>

NORMAL_REVIEW_PROMPT_HEAD ==
    <<"C","o","d","e"," ","r","e","v","i","e","w"," ","-"," ","b","a","l","a","n","c","e","d"," ","d","e","t","a","i","l",":","\n","\n","C","o","d","e"," ","c","h","a","n","g","e","s",":","\n">>
NORMAL_REVIEW_PROMPT_TAIL ==
    <<"\n","\n","R","e","v","i","e","w",":","\n","U+274C"," ","C","r","i","t","i","c","a","l",":"," ","b","u","g","s",","," ","s","e","c","u","r","i","t","y","\n","U+26A0","U+FE0F"," "," ","W","a","r","n","i","n","g",":"," ","p","o","t","e","n","t","i","a","l"," ","i","s","s","u","e","s",","," ","e","d","g","e"," ","c","a","s","e","s","\n","U+1F4A1"," ","S","u","g","g","e","s","t","i","o","n",":"," ","c","o","d","e"," ","q","u","a","l","i","t","y",","," ","n","a","m","i","n","g","\n","\n","F","o","r","m","a","t"," ","(","K","o","r","e","a","n",")",":","\n","-"," ","G","r","o","u","p"," ","b","y"," ","s","e","v","e","r","i","t","y","\n","-"," ","B","e"," ","s","p","e","c","i","f","i","c"," ","w","i","t","h"," ","l","i","n","e"," ","c","o","n","t","e","x","t","\n","-"," ","M","a","x"," ","5","-","7"," ","i","t","e","m","s"," ","t","o","t","a","l","\n","\n","I","f"," ","m","o","s","t","l","y"," ","g","o","o","d",":"," ","\"","U+2705"," ","U+C804","U+BC18","U+C801","U+C73C","U+B85C"," ","U+C591","U+D638","U+D569","U+B2C8","U+B2E4","\""," ","+"," ","a","n","y"," ","w","a","r","n","i","n","g","s","\n">>

DETAILED_REVIEW_PROMPT_HEAD ==
    <<"D","e","t","a","i","l","e","d"," ","c","o","d","e"," ","r","e","v","i","e","w",":","\n","\n","C","o","d","e"," ","c","h","a","n","g","e","s",":","\n">>
DETAILED_REVIEW_PROMPT_TAIL ==
    <<"\n","\n","A","n","a","l","y","z","e",":","\n","U+1F41B"," ","B","u","g","s"," ","&"," ","L","o","g","i","c"," ","e","r","r","o","r","s","\n","U+1F512"," ","S","e","c","u","r","i","t","y"," ","v","u","l","n","e","r","a","b","i","l","i","t","i","e","s","\n","U+26A1"," ","P","e","r","f","o","r","m","a","n","c","e"," ","i","s","s","u","e","s","\n","U+1F3D7","U+FE0F"," "," ","A","r","c","h","i","t","e","c","t","u","r","e"," ","&"," ","d","e","s","i","g","n"," ","p","a","t","t","e","r","n","s","\n","U+1F4DD"," ","C","o","d","e"," ","q","u","a","l","i","t","y"," ","&"," ","r","e","a","d","a","b","i","l","i","t","y","\n","U+2728"," ","B","e","s","t"," ","p","r","a","c","t","i","c","e","s","\n","\n","F","o","r","m","a","t"," ","(","K","o","r","e","a","n",")",":","\n","-"," ","O","r","g","a","n","i","z","e","d"," ","b","y"," ","c","a","t","e","g","o","r","y","\n","-"," ","S","p","e","c","i","f","i","c"," ","e","x","a","m","p","l","e","s"," ","w","i","t","h"," ","c","o","n","t","e","x","t","\n","-"," ","A","c","t","i","o","n","a","b","l","e"," ","r","e","c","o","m","m","e","n","d","a","t","i","o","n","s","\n","\n","P","r","o","v","i","d","e"," ","t","h","o","r","o","u","g","h"," ","a","n","a","l","y","s","i","s",".","\n">>

_quick_review_prompt(diff) == QUICK_REVIEW_PROMPT_HEAD \o diff \o QUICK_REVIEW_PROMPT_TAIL
_normal_review_prompt(diff) == NORMAL_REVIEW_PROMPT_HEAD \o diff \o NORMAL_REVIEW_PROMPT_TAIL
_detailed_review_prompt(diff) == DETAILED_REVIEW_PROMPT_HEAD \o diff \o DETAILED_REVIEW_PROMPT_TAIL

\* the normal template used whatever the level.  C9 tells it from _build_prompt.
_build_prompt_always_normal(compressed_diff, lvl) ==
    _normal_review_prompt(compressed_diff)

_build_prompt(compressed_diff, lvl) ==
    IF lvl = QUICK THEN _quick_review_prompt(compressed_diff)
    ELSE IF lvl = DETAILED THEN _detailed_review_prompt(compressed_diff)
    ELSE _normal_review_prompt(compressed_diff)

\* what review_code sends to the remote API: one request per call of review_code
review_code_request(compressed_diff, lvl) ==
    [compressed_diff |-> compressed_diff,
     level |-> lvl,
     prompt |-> _build_prompt(compressed_diff, lvl)]

\* how the one remote call of review_code ends: with the model's text, or with any
\* exception (transport, authentication, a malformed response)
ApiResponses == { <<" ","U+2705"," ","U+BB38","U+C81C"," ","U+C5C6","U+C74C","\n">> }
ApiOutcomes == { [ok |-> TRUE, text |-> t] : t \in ApiResponses } \cup { [ok |-> FALSE] }

(***************************************************************************)
(* CodeReviewer.review                                                     *)
(***************************************************************************)

NO_CHANGES_REVIEW == <<"U+2705"," ","U+BCC0","U+ACBD","U+C0AC","U+D56D","U+C774"," ","U+C5C6","U+C2B5","U+B2C8","U+B2E4",".">>

\* what review returns for an empty list
review_no_changes == [status |-> "returned", review |-> NO_CHANGES_REVIEW, token_estimate |-> 0]

\* what review returns, or that it raised, once the provider's call ended in `outcome'
review_outcome(compressed_diff, lvl, outcome) ==
    IF outcome.ok
    THEN [status |-> "returned",
          review |-> Strip(outcome.text),
          compressed_diff |-> compressed_diff,
          token_estimate |-> Len(compressed_diff) \div 4,
          level |-> lvl]
    ELSE [status |-> "raised"]

(***************************************************************************)
(* The operations                                                          *)
(***************************************************************************)

\* DiffCompressor.compress(changes, level)
Compress ==
    /\ pc = "start"
    /\ report' = compress(changes, level)
    /\ changes' = changes_after_compress(changes, level)
    /\ pc' = "compressed"
    /\ UNCHANGED <<level, review_result, provider_calls, line, accepted, repo, change_set, run, configs>>

\* a second call of DiffCompressor.compress with the list and the level of the first
CompressAgain ==
    /\ pc = "compressed"
    /\ report' = compress(changes, level)
    /\ changes' = changes_after_compress(changes, level)
    /\ pc' = "compressed_again"
    /\ UNCHANGED <<level, review_result, provider_calls, line, accepted, repo, change_set, run, configs>>

\* CodeReviewer.review(changes, config, level) on a non-empty list: it compresses,
\* calls the provider once, and returns the review or raises
Review ==
    /\ pc = "start"
    /\ changes # <<>>
    /\ LET compressed_diff == compress(changes, level) IN
       \E outcome \in ApiOutcomes :
          /\ provider_calls' = Append(provider_calls, review_code_request(compressed_diff, level))
          /\ review_result' = review_outcome(compressed_diff, level, outcome)
    /\ pc' = "reviewed"
    /\ UNCHANGED <<changes, level, report, line, accepted, repo, change_set, run, configs>>

\* CodeReviewer.review on an empty list returns before it compresses or calls anything
ReviewNothing ==
    /\ pc = "start"
    /\ changes = <<>>
    /\ review_result' = review_no_changes
    /\ pc' = "reviewed"
    /\ UNCHANGED <<changes, level, report, provider_calls, line, accepted, repo, change_set, run, configs>>

Next == Compress \/ CompressAgain \/ Review \/ ReviewNothing

NextCompress == Compress

Levels == {QUICK, NORMAL, DETAILED}

(***************************************************************************)
(* ConfigManager of src/config_manager.py                                  *)
(*                                                                         *)
(* A dict is an object: two names can hold the same dict, and what is      *)
(* written through one is read through the other.  configs.heap lists the  *)
(* dicts that hold a section of a configuration: heap[n] is the dict       *)
(* number n, a function from its keys to their values.  A configuration,   *)
(* the outer dict, is a function from the names of its sections to the     *)
(* numbers of their dicts; nothing writes into an outer dict once it is    *)
(* built (lines 82, 85, 89 and 203 copy it), so only the section dicts     *)
(* need an identity.  configs.DEFAULT_CONFIG is the class attribute,       *)
(* configs.managers lists the ConfigManager objects built in the process,  *)
(* in order, each with the file and the environment it was built from and  *)
(* its self.config.  A temperature is written in tenths (0.3 is 3).        *)
(***************************************************************************)

\* the dict the class statement writes
DEFAULT_CONFIG ==
    [commit |-> [max_subject_length |-> 72, include_file_list |-> TRUE,
                 conventional_commits |-> TRUE,
                 types |-> << <<"f","e","a","t">>, <<"f","i","x">>, <<"d","o","c","s">>, <<"s","t","y","l","e">>, <<"r","e","f","a","c","t","o","r">>, <<"t","e","s","t">>,
                              <<"c","h","o","r","e">>, <<"p","e","r","f">>, <<"c","i">>, <<"b","u","i","l","d">> >>],
     ai |-> [model |-> <<"g","p","t","-","4">>, temperature |-> 3, max_tokens |-> 500],
     git |-> [auto_add |-> FALSE,
              exclude_patterns |-> << <<"*",".","l","o","g">>, <<"*",".","t","m","p">>, <<".","e","n","v">>, <<"_","_","p","y","c","a","c","h","e","_","_","/">> >>]]

\* the class once the module is imported: the section dicts of DEFAULT_CONFIG are
\* the dicts 1, 2 and 3, and no ConfigManager is built
ConfigManagerClass ==
    [heap |-> << DEFAULT_CONFIG.commit, DEFAULT_CONFIG.ai, DEFAULT_CONFIG.git >>,
     DEFAULT_CONFIG |-> [commit |-> 1, ai |-> 2, git |-> 3],
     managers |-> << >>]

\* a merge in which a section of the file replaces the section of the default
_merge_configs_section_replaced(default, override, heap) ==
    LET RECURSIVE Merged(_, _, _)
        Merged(keys, result, objects) ==
            IF keys = << >> THEN [config |-> result, heap |-> objects]
            ELSE Merged(Tail(keys),
                        [s \in DOMAIN result \cup {Head(keys)} |->
                            IF s = Head(keys) THEN Len(objects) + 1 ELSE result[s]],
                        Append(objects, override[Head(keys)]))
    IN  Merged(SelectSeq(<< "commit", "ai", "git", "review" >>, LAMBDA s : s \in DOMAIN override),
               default, heap)

\* _merge_configs(default, override) for a default whose sections are on the heap
\* and the dict read from a file, a dict of dicts: result = default.copy(), and for
\* every section of the file, in the order commit, ai, git, review, the section of
\* result becomes a new dict, the merge of the two sections (the call of
\* _merge_configs on them: a copy of the default's section in which every key of
\* the file's section has the file's value), or the file's dict when the default
\* has no such section
_merge_configs(default, override, heap) ==
    LET RECURSIVE Merged(_, _, _)
        Merged(keys, result, objects) ==
            IF keys = << >> THEN [config |-> result, heap |-> objects]
            ELSE LET key == Head(keys)
                     value == override[key]
                     section ==
                         IF key \in DOMAIN result
                         THEN [k \in DOMAIN objects[result[key]] \cup DOMAIN value |->
                                  IF k \in DOMAIN value THEN value[k]
                                  ELSE objects[result[key]][k]]
                         ELSE value
                 IN  Merged(Tail(keys),
                            [s \in DOMAIN result \cup {key} |->
                                IF s = key THEN Len(objects) + 1 ELSE result[s]],
                            Append(objects, section))
    IN  Merged(SelectSeq(<< "commit", "ai", "git", "review" >>, LAMBDA s : s \in DOMAIN override),
               default, heap)

\* _load_config(): the merge of DEFAULT_CONFIG and the file when the file exists
\* and yaml reads it (an empty file is read as None, merged as {}), and
\* DEFAULT_CONFIG.copy(), a new outer dict of the same section dicts, when there
\* is no file or reading it raises
_load_config(file, class, heap) ==
    IF file.state = "loaded" THEN _merge_configs(class.DEFAULT_CONFIG, file.content, heap)
    ELSE [config |-> class.DEFAULT_CONFIG, heap |-> heap]

\* _apply_env_overrides(): AI_MODEL, AI_TEMPERATURE and AI_MAX_TOKENS, when
\* os.getenv gives a text that is not empty, are written into the dict
\* self.config['ai']; a text float() or int() does not take (ValueError) is passed
\* over.  What comes back is the heap after the writes
_apply_env_overrides(config, heap, env) ==
    LET getenv(name) == IF env[name] # << >> /\ env[name][1] # << >> THEN env[name] ELSE << >>
        IsDigits(s) == s # << >> /\ \A i \in 1..Len(s) : \E d \in 1..10 : DecimalDigits[d] = s[i]
        RECURSIVE Number(_)
        Number(s) ==
            IF s = << >> THEN 0
            ELSE 10 * Number(SubSeq(s, 1, Len(s) - 1))
                 + (CHOOSE d \in 0..9 : DecimalDigits[d + 1] = s[Len(s)])
        \* int(text) for a text of digits; any other text of the environments raises
        int(s) == IF IsDigits(s) THEN << Number(s) >> ELSE << >>
        \* float(text), in tenths, for digits '.' digit and for digits; any other text
        \* of the environments raises
        float(s) ==
            LET dot == FindFrom(s, ".", 1) IN
            IF IsDigits(s) THEN << 10 * Number(s) >>
            ELSE IF dot = Len(s) - 1 /\ IsDigits(SubSeq(s, 1, dot - 1)) /\ IsDigits(<< s[Len(s)] >>)
            THEN << 10 * Number(SubSeq(s, 1, dot - 1)) + Number(<< s[Len(s)] >>) >>
            ELSE << >>
        Written(objects, key, value) ==
            IF value = << >> THEN objects
            ELSE [objects EXCEPT ![config.ai] =
                     [k \in DOMAIN @ \cup {key} |-> IF k = key THEN value[1] ELSE @[k]]]
        model == getenv("AI_MODEL")
        temperature == IF getenv("AI_TEMPERATURE") # << >> THEN float(getenv("AI_TEMPERATURE")[1])
                       ELSE << >>
        max_tokens == IF getenv("AI_MAX_TOKENS") # << >> THEN int(getenv("AI_MAX_TOKENS")[1])
                      ELSE << >>
    IN  Written(Written(Written(heap, "model", model), "temperature", temperature),
                "max_tokens", max_tokens)

\* config.get('<section>.<key>', default) of a manager: the value in its self.config
get(heap, manager, section, key, default) ==
    IF section \in DOMAIN manager.config /\ key \in DOMAIN heap[manager.config[section]]
    THEN heap[manager.config[section]][key]
    ELSE default

\* the ConfigManager objects one process builds
MaxManagers == 2

\* ConfigManager(config_path): self.config = self._load_config(), then
\* self._apply_env_overrides(); the file and the environment are the ones of the
\* moment.  Files: none, one yaml cannot read, an empty one, and files that set
\* keys of ai, of commit and git, and a section the defaults do not have.
\* Environments: none of the three variables set, one of them set (empty,
\* well-formed or not), and the three set
ConfigManager ==
    /\ Len(configs.managers) < MaxManagers
    /\ \E file \in
            { [state |-> "absent", content |-> << >>], [state |-> "unreadable", content |-> << >>],
              [state |-> "loaded", content |-> << >>],
              [state |-> "loaded", content |-> [ai |-> [model |-> <<"g","p","t","-","3",".","5","-","t","u","r","b","o">>]]],
              [state |-> "loaded", content |-> [ai |-> [temperature |-> 7, max_tokens |-> 200]]],
              [state |-> "loaded",
               content |-> [commit |-> [max_subject_length |-> 50], git |-> [auto_add |-> TRUE]]],
              [state |-> "loaded", content |-> [review |-> [enabled |-> TRUE]]] },
          env \in
            { [AI_MODEL |-> model, AI_TEMPERATURE |-> << >>, AI_MAX_TOKENS |-> << >>] :
                  model \in { << >>, << <<>> >>, << <<"c","l","a","u","d","e","-","3">> >> } }
            \cup { [AI_MODEL |-> << >>, AI_TEMPERATURE |-> temperature, AI_MAX_TOKENS |-> << >>] :
                     temperature \in { << <<>> >>, << <<"0",".","9">> >>, << <<"1">> >>, << <<"h","o","t">> >> } }
            \cup { [AI_MODEL |-> << >>, AI_TEMPERATURE |-> << >>, AI_MAX_TOKENS |-> max_tokens] :
                     max_tokens \in { << <<"1","0","0">> >>, << <<"1","e","3">> >> } }
            \cup { [AI_MODEL |-> << <<"c","l","a","u","d","e","-","3">> >>, AI_TEMPERATURE |-> << <<"h","o","t">> >>,
                    AI_MAX_TOKENS |-> << <<"1","0","0">> >>] } :
         LET loaded == _load_config(file, configs, configs.heap)
         IN  configs' = [configs EXCEPT
                            !.heap = _apply_env_overrides(loaded.config, loaded.heap, env),
                            !.managers = Append(@, [file |-> file, env |-> env,
                                                    config |-> loaded.config])]
    /\ UNCHANGED <<changes, level, pc, report, review_result, provider_calls, line, accepted,
                   repo, change_set, run>>

\* the review operations are given their list of changes: no repository is read,
\* main() does not run and no ConfigManager is built
NoRepository ==
    /\ repo = <<>>
    /\ change_set = [built |-> FALSE]
    /\ run = [pc |-> "not started"]
    /\ configs = ConfigManagerClass

FileChange(path, change_type, insertions, deletions, diff) ==
    [path |-> path, change_type |-> change_type,
     insertions |-> insertions, deletions |-> deletions, diff |-> diff]

\* the lists of at most n elements of S
ListsUpTo(S, n) == UNION { [1..k -> S] : k \in 0..n }

\* the lists of at most n files of S in which no path comes twice: the readers of
\* git_analyzer report a path once
ChangeLists(S, n) ==
    { files \in ListsUpTo(S, n) :
        \A i, j \in DOMAIN files : i # j => files[i].path # files[j].path }

InitWith(lists) ==
    /\ changes \in lists
    /\ level \in Levels
    /\ pc = "start"
    /\ report = <<>>
    /\ review_result = [status |-> "none"]
    /\ provider_calls = <<>>
    /\ line = <<>>
    /\ accepted = "unset"
    /\ NoRepository

(***************************************************************************)
(* Change lists by volume: files whose counts put the total on both sides  *)
(* of the two thresholds of compress (200, 201, 500, 501, 600, ...).       *)
(* compress reads insertions and deletions as fields of FileChange and     *)
(* never counts the lines of diff, so the diff texts are kept short.       *)
(***************************************************************************)

MaxFiles == 3

VolumeFiles ==
    { FileChange(<<"a",".","p","y">>, <<"M">>, c[1], c[2], <<"+","x"," ","="," ","1","\n","-","y"," ","="," ","2">>) :
        c \in { <<1, 0>>, <<100, 100>>, <<300, 200>> } }
    \cup { FileChange(<<"l","i","b","/","b",".","x",".","p","y">>, <<"D">>, c[1], c[2], <<>>) :
        c \in { <<100, 100>>, <<300, 200>> } }
    \cup { FileChange(<<"c",".","p","y">>, <<"R">>, c[1], c[2], <<"+","i","m","p","o","r","t"," ","o","s">>) :
        c \in { <<100, 0>>, <<200, 1>> } }
    \cup { FileChange(<<"R","E","A","D","M","E">>, <<"A">>, c[1], c[2], <<"+","d","e","f"," ","f","(","x",")",":">>) :
        c \in { <<1, 0>>, <<200, 1>> } }

Init == InitWith(ChangeLists(VolumeFiles, MaxFiles))

Spec == Init /\ [][Next]_vars

(***************************************************************************)
(* One changed file with a diff made of runs of lines: enough of one kind  *)
(* of line to pass every cap of _compress_diff_content (5, 8, 10, 15)      *)
(***************************************************************************)

MaxRuns == 2
MaxRun == 16

RunLengths == {1, MaxRun}

DiffLines ==
    { <<"+","d","e","f"," ","f","(","x",")",":">>, <<"+","x"," ","="," ","1">>, <<"+","#"," ","c">>, <<"-","y"," ","="," ","2">>,
      <<"+","+","+"," ","b","/","r","e","t","r","y",".","p","y">>, <<"-","-","-"," ","a","/","r","e","t","r","y",".","p","y">>, <<" ","c","l","a","s","s"," ","A",":">> }

\* n times the line l
Repeat(l, n) == [k \in 1..n |-> l]

\* the lines of a diff: at most MaxRuns runs, each one line of DiffLines repeated
DiffLineLists ==
    UNION { { Join([k \in 1..n |-> Repeat(runs[k][1], runs[k][2])], <<>>) :
                runs \in [1..n -> DiffLines \X RunLengths] } : n \in 0..MaxRuns }

\* diff texts: the lines joined by newlines (no line: the empty diff)
Diffs == { Join(ls, <<"\n">>) : ls \in DiffLineLists }

DiffFiles ==
    { FileChange(<<"m","a","i","n",".","p","y">>, t, 12, 3, d) : t \in { <<"A">>, <<"M">>, <<"D">> }, d \in Diffs }

InitDiff == InitWith({ << f >> : f \in DiffFiles })

SpecDiff == InitDiff /\ [][NextCompress]_vars

(***************************************************************************)
(* Change lists by priority: low, high and normal paths, with counts that  *)
(* give smart mode and minimal mode at the quick level                     *)
(***************************************************************************)

MaxPriorityFiles == 2

KEY_DIFF ==
    <<"-","-","-"," ","a","/","r","e","t","r","y",".","p","y","\n","+","+","+"," ","b","/","r","e","t","r","y",".","p","y","\n","@","@"," ","-","1",",","9"," ","+","1",",","9"," ","@","@","\n","-"," "," "," "," ","o","l","d"," ","="," ","0","\n","+","i","m","p","o","r","t"," ","o","s","\n","+"," "," "," "," ","a"," ","="," ","1","\n","+"," "," "," "," ","i","f"," ","a",":","\n","+"," "," "," "," "," "," "," "," ","r","e","t","u","r","n"," ","a","\n","+"," "," "," "," ","}","\n","+"," "," "," "," ","b"," ","="," ","2","\n","+"," "," "," "," ","f","o","r"," ","i"," ","i","n"," ","b",":","\n","+"," "," "," "," ","c"," ","="," ","3","\n","+"," "," "," "," ","d"," ","="," ","4">>

SIGNATURE_DIFF == <<"+","c","l","a","s","s"," ","A",":","\n","+"," "," "," "," ","d","e","f"," ","f","(","s","e","l","f",")",":","\n","+"," "," "," "," "," "," "," "," ","r","e","t","u","r","n"," ","1","\n","+","x"," ","="," ","2">>

PriorityFiles ==
    { FileChange(<<"a","u","t","h","_","s","e","r","v","i","c","e",".","p","y">>, <<"M">>, 12, 3, KEY_DIFF),
      FileChange(<<"a","u","t","h","_","s","e","r","v","i","c","e",".","p","y">>, <<"A">>, 200, 1, SIGNATURE_DIFF),
      FileChange(<<"t","e","s","t","_","u","t","i","l","s",".","p","y">>, <<"M">>, 12, 3, KEY_DIFF),
      FileChange(<<"t","e","s","t","_","u","t","i","l","s",".","p","y">>, <<"A">>, 200, 1, SIGNATURE_DIFF),
      FileChange(<<"m","a","i","n",".","p","y">>, <<"M">>, 200, 1, KEY_DIFF),
      FileChange(<<"m","a","i","n",".","p","y">>, <<"D">>, 12, 3, <<>>),
      FileChange(<<"d","o","c","s","/","A","P","I",".","m","d">>, <<"M">>, 12, 3, KEY_DIFF),
      FileChange(<<"T","e","s","t","_","M","o","d","e","l",".","p","y">>, <<"A">>, 12, 3, SIGNATURE_DIFF),
      FileChange(<<"s","r","c","/","C","o","n","f","i","g",".","L","o","a","d","e","r",".","p","y">>, <<"R">>, 12, 3, <<"+"," "," "," "," ","p","a","s","s">>) }

InitPriority == InitWith(ChangeLists(PriorityFiles, MaxPriorityFiles))

SpecPriority == InitPriority /\ [][NextCompress]_vars

(***************************************************************************)
(* One modified file "handler.py" (+12/-3): its diff holds 3 removed lines *)
(* and 12 added lines, one of which defines a function                     *)
(***************************************************************************)

DIFF_HEADER ==
    << <<"d","i","f","f"," ","-","-","g","i","t"," ","a","/","h","a","n","d","l","e","r",".","p","y"," ","b","/","h","a","n","d","l","e","r",".","p","y">>, <<"-","-","-"," ","a","/","h","a","n","d","l","e","r",".","p","y">>, <<"+","+","+"," ","b","/","h","a","n","d","l","e","r",".","p","y">>,
       <<"@","@"," ","-","1",",","3"," ","+","1",",","1","2"," ","@","@">> >>

RemovedLines == { <<"-"," "," "," "," ","r","e","t","u","r","n"," ","N","o","n","e">>, <<"-","i","m","p","o","r","t"," ","o","s">> }

DefinitionLines == { <<"+","d","e","f"," ","h","a","n","d","l","e","(","r","e","q",")",":">>, <<"+"," "," "," "," ","a","s","y","n","c"," ","d","e","f"," ","h","a","n","d","l","e","(","s","e","l","f",","," ","r","e","q",")",":">> }

FillerLines == { <<"+"," "," "," "," ","x"," ","="," ","1">>, <<"+"," "," "," "," ","#"," ","s","t","e","p">> }

\* the diffs of the scenario: with or without the header lines, each removed line any
\* of RemovedLines, the definition at any place among added lines of one kind
HandlerDiffs ==
    { Join(header \o removed
               \o [k \in 1..12 |-> IF k = place THEN definition ELSE filler], <<"\n">>) :
        header \in { <<>>, DIFF_HEADER },
        removed \in [1..3 -> RemovedLines],
        place \in 1..12,
        definition \in DefinitionLines,
        filler \in FillerLines }

HandlerFiles == { FileChange(<<"h","a","n","d","l","e","r",".","p","y">>, <<"M">>, 12, 3, d) : d \in HandlerDiffs }

InitScenario == InitWith({ << f >> : f \in HandlerFiles })

NextScenario == Compress \/ Review

SpecScenario == InitScenario /\ [][NextScenario]_vars

(***************************************************************************)
(* The lines the filter is applied to                                      *)
(***************************************************************************)

LineLeads == { <<>>, <<" ">>, <<" "," "," "," ">>, <<"\t">> }
LineTrails == { <<>>, <<" ">> }
LineCores ==
    { <<>>, <<"a">>, <<"a","=">>, <<"a","b">>, <<"=">>, <<"=","=">>, <<"x","=","1">>, <<"x"," ","="," ","1">>, <<"a","b","c">>,
      <<"#"," ","j","u","s","t"," ","a"," ","c","o","m","m","e","n","t">>, <<"i","f"," ","u","s","e","r",".","a","c","t","i","v","e",":">>, <<"i","m","p","o","r","t"," ","o","s">>, <<"f","r","o","m"," ","a"," ","i","m","p","o","r","t"," ","b">>,
      <<"I","m","p","o","r","t"," ","x"," ","="," ","1">>, <<"p","a","s","s">>, <<"p","a","s","s","w","o","r","d"," ","="," ","1">>, <<"}">>, <<"}",";">>, <<"{"," ","x"," ","="," ","1">>,
      <<"(","a"," ","="," ","b",")">>, <<"[","x"," ","="," ","1","]">>, <<";"," ","x"," ","="," ","1">>, <<"/","/"," ","c"," ","="," ","1">>, <<"/","*"," ","c"," ","="," ","1"," ","*","/">>, <<"*","/"," ","x"," ","="," ","1">>,
      <<"\"","\"","\"","d","o","c"," ","="," ","1">>, <<"'","'","'">>, <<"c","o","n","s","o","l","e",".","l","o","g","(","x"," ","="," ","1",")">>, <<"p","r","i","n","t","(","x",")">>,
      <<"r","e","t","u","r","n"," ","x">>, <<"r","e","t","u","r","n","e","d">>, <<"d","e","f"," ","f","(","x",")",":">>, <<"c","l","a","s","s"," ","A",":">>, <<"f","u","n","c","t","i","o","n"," ","f","(",")">>,
      <<"I","F"," ","X",":">>, <<"I","F"," ","X"," ","="," ","1">>, <<"e","l","s","e">>, <<"e","l","s","e","w","h","e","r","e">>, <<"t","r","y">>, <<"c","a","t","c","h">>,
      <<"f","o","r"," ","i"," ","i","n"," ","x",":">>, <<"w","h","i","l","e"," ","x",":">>, <<"a","w","a","i","t"," ","f","(",")">>, <<"a","s","y","n","c"," ","f","(",")">>, <<"@","d","e","c">> }

LinePool == { a \o b \o c : a \in LineLeads, b \in LineCores, c \in LineTrails }

InitLine ==
    /\ line \in LinePool
    /\ accepted = "unset"
    /\ NoRepository
    /\ changes = <<>>
    /\ level = "quick"
    /\ pc = "start"
    /\ report = <<>>
    /\ review_result = [status |-> "none"]
    /\ provider_calls = <<>>

IsImportantLine ==
    /\ pc = "start"
    /\ accepted' = _is_important_line(line)
    /\ pc' = "filtered"
    /\ UNCHANGED <<changes, level, report, review_result, provider_calls, line, repo, change_set, run, configs>>

NextLine == IsImportantLine

SpecLine == InitLine /\ [][NextLine]_vars

(***************************************************************************)
(* The repository as GitAnalyzer reads it (src/git_analyzer.py)            *)
(*                                                                         *)
(* repo is a list of entries, one for each line `git status --porcelain'   *)
(* prints, in the order of the lines:                                      *)
(*   status   the line, "XY path" (X the index, Y the working tree)        *)
(*   path     the path of the file in the working tree                     *)
(*   content  << text >> when the file is on disk, << >> when it is not    *)
(*   cached   << text >>, what `git diff --cached path' prints, or << >>   *)
(*            when git fails: it takes a path that is not on disk for a    *)
(*            revision ("ambiguous argument"), and GitPython raises        *)
(*   diff     what `git diff -- path' prints, each line with its newline   *)
(***************************************************************************)

NL == "\n"

\* s.splitlines(), for a text whose only line boundary is "\n"
SplitLines(s) ==
    LET parts == Split(s, NL) IN
    IF parts[Len(parts)] = <<>> THEN SubSeq(parts, 1, Len(parts) - 1) ELSE parts

\* stdout of `git status --porcelain': every line ends with a newline
StatusStdout(r) == Join([i \in 1..Len(r) |-> r[i].status \o << NL >>], <<>>)

\* os.path.exists(full_path)
PathExists(r, file_path) ==
    \E i \in 1..Len(r) : r[i].path = file_path /\ r[i].content # <<>>

\* open(full_path).read()
ReadFile(r, file_path) ==
    LET i == CHOOSE k \in 1..Len(r) : r[k].path = file_path /\ r[k].content # <<>> IN r[i].content[1]

\* the concatenation of a list of lists: what a loop appends, iteration by iteration
RECURSIVE ConcatAll(_)
ConcatAll(lists) == IF lists = <<>> THEN <<>> ELSE Head(lists) \o ConcatAll(Tail(lists))

(***************************************************************************)
(* GitAnalyzer._count_changes                                              *)
(***************************************************************************)

_count_changes(diff_text) ==
    LET lines == Split(diff_text, NL)
        IsInsertion(l) == StartsWith(l, <<"+">>) /\ ~StartsWith(l, <<"+","+","+">>)
    IN
    [insertions |-> Cardinality({ i \in 1..Len(lines) : IsInsertion(lines[i]) }),
     deletions  |-> Cardinality({ i \in 1..Len(lines) :
                        /\ ~IsInsertion(lines[i])
                        /\ StartsWith(lines[i], <<"-">>) /\ ~StartsWith(lines[i], <<"-","-","-">>) })]

(***************************************************************************)
(* GitAnalyzer.get_staged_changes, get_unstaged_changes, get_all_changes   *)
(***************************************************************************)

\* the FileChange of a new file read from disk: every element of content.split('\n')
\* counts as an insertion and is a line of the diff, with a "+" before it
AddedFromDisk(file_path, content) ==
    LET lines == Split(content, NL) IN
    FileChange(file_path, <<"A">>, Len(lines), 0,
               Join([i \in 1..Len(lines) |-> << "+" >> \o lines[i]], << NL >>))

\* the FileChange of a path whose diff git printed
FromDiff(file_path, change_type, diff_text) ==
    LET counts == _count_changes(diff_text) IN
    FileChange(file_path, change_type, counts.insertions, counts.deletions, diff_text)

\* the paths for which the except clause of the loop of get_staged_changes prints
\* "Warning: Could not process ...": the 'M' and 'D' paths of staged_files for which
\* self.repo.git.diff('--cached', file_path) raises
staged_warnings(r) ==
    LET stdout == StatusStdout(r)
        status_output ==
            Split(IF stdout # <<>> THEN SubSeq(stdout, 1, Len(stdout) - 1) ELSE stdout, NL)
        staged_files ==
            SelectSeq(status_output, LAMBDA l : Len(l) >= 4 /\ l[1] \in {"A", "M", "D", "R"})
        Raises(l) ==
            /\ l[1] \in {"M", "D"}
            /\ ~\E i \in 1..Len(r) : r[i].path = Drop(l, 3) /\ r[i].cached # <<>>
        failed == SelectSeq(staged_files, Raises)
    IN  [i \in 1..Len(failed) |-> Drop(failed[i], 3)]

\* a reader whose loop is left by the first exception: the try of the whole method
\* catches it, and the files after the one that failed are not read
get_staged_changes_loop_left_at_failure(r) ==
    LET Raises(e) == e.status[1] \in {"M", "D"} /\ e.cached = <<>>
        first_failure ==
            IF \E i \in 1..Len(r) : Raises(r[i])
            THEN CHOOSE i \in 1..Len(r) : Raises(r[i]) /\ \A j \in 1..(i - 1) : ~Raises(r[j])
            ELSE Len(r) + 1
        StagedChange(e) ==
            IF e.status[1] = "A" /\ e.content # <<>>
            THEN << AddedFromDisk(e.path, e.content[1]) >>
            ELSE IF e.status[1] \in {"M", "D"}
            THEN << FromDiff(e.path, << e.status[1] >>, e.cached[1]) >>
            ELSE << >>
    IN  ConcatAll([i \in 1..(first_failure - 1) |-> StagedChange(r[i])])

get_staged_changes(r) ==
    LET \* self.repo.git.status('--porcelain'): GitPython returns stdout without its
        \* last newline
        stdout == StatusStdout(r)
        status_output ==
            Split(IF stdout # <<>> THEN SubSeq(stdout, 1, Len(stdout) - 1) ELSE stdout, NL)
        \* the lines that name a staged path: staged_files, a dict from the path to the
        \* first character (git prints a path on one line of this kind, so no key is
        \* overwritten)
        staged_files ==
            SelectSeq(status_output, LAMBDA l : Len(l) >= 4 /\ l[1] \in {"A", "M", "D", "R"})
        \* self.repo.git.diff('--cached', file_path): it raises when git fails
        CachedDiffs(file_path) ==
            { r[i].cached[1] :
                i \in { k \in 1..Len(r) : r[k].path = file_path /\ r[k].cached # <<>> } }
        \* what the loop appends for one path: the branches are 'A', 'M' and 'D'; a
        \* path of any other status and an 'A' path that is not on disk append nothing,
        \* and so does an 'M' or 'D' path for which git diff raises (the except clause
        \* of the loop prints a warning and goes on)
        StagedChange(l) ==
            LET file_path == Drop(l, 3)
                status == l[1]
            IN  IF status = "A"
                THEN IF PathExists(r, file_path)
                     THEN << AddedFromDisk(file_path, ReadFile(r, file_path)) >>
                     ELSE << >>
                ELSE IF status \in {"M", "D"} /\ CachedDiffs(file_path) # {}
                THEN << FromDiff(file_path, << status >>,
                                 CHOOSE diff_output \in CachedDiffs(file_path) : TRUE) >>
                ELSE << >>
    IN  ConcatAll([i \in 1..Len(staged_files) |-> StagedChange(staged_files[i])])

get_unstaged_changes(r) ==
    LET \* unstaged_files: the (status_code, file_path) of the lines whose second
        \* character is M, D or A
        unstaged_files ==
            SelectSeq(SplitLines(StatusStdout(r)),
                      LAMBDA l : Len(l) >= 4 /\ l[2] \in {"M", "D", "A"})
        \* subprocess.run(['git', 'diff', '--', file_path]).stdout: empty when git
        \* prints nothing or fails
        GitDiff(file_path) ==
            IF \E i \in 1..Len(r) : r[i].path = file_path /\ r[i].diff # <<>>
            THEN LET i == CHOOSE k \in 1..Len(r) : r[k].path = file_path /\ r[k].diff # <<>>
                 IN  r[i].diff
            ELSE <<>>
        UnstagedChange(l) ==
            LET file_path == Strip(Drop(l, 3))
                status_code == l[2]
            IN  IF status_code \in {"M", "D"}
                THEN << FromDiff(file_path, << status_code >>, GitDiff(file_path)) >>
                ELSE IF PathExists(r, file_path) /\ ReadFile(r, file_path) # <<>>
                THEN << AddedFromDisk(file_path, ReadFile(r, file_path)) >>
                ELSE << >>
    IN  ConcatAll([i \in 1..Len(unstaged_files) |-> UnstagedChange(unstaged_files[i])])

GitChanges(staged, unstaged, total_insertions, total_deletions, total_files) ==
    [built |-> TRUE, staged_files |-> staged, unstaged_files |-> unstaged,
     total_insertions |-> total_insertions, total_deletions |-> total_deletions,
     total_files |-> total_files]

get_all_changes(r, include_untracked) ==
    LET staged == get_staged_changes(r)
        \* self.repo.untracked_files: the paths of the "??" lines
        untracked == SelectSeq(r, LAMBDA e : StartsWith(e.status, <<"?","?">>))
        \* the FileChange made of an untracked file: its diff is the content as read
        UntrackedChange(file_path) ==
            IF PathExists(r, file_path)
            THEN LET content == ReadFile(r, file_path) IN
                 << FileChange(file_path, <<"A">>, Len(Split(content, NL)), 0, content) >>
            ELSE << >>
        unstaged == get_unstaged_changes(r) \o
                    (IF include_untracked
                     THEN ConcatAll([i \in 1..Len(untracked) |-> UntrackedChange(untracked[i].path)])
                     ELSE << >>)
        all_files == staged \o unstaged
    IN  GitChanges(staged, unstaged, SumInsertions(all_files), SumDeletions(all_files),
                   Len(all_files))

\* GitAnalyzer.get_staged_changes()
GetStagedChanges ==
    /\ pc = "start"
    /\ changes' = get_staged_changes(repo)
    /\ pc' = "staged read"
    /\ UNCHANGED <<level, report, review_result, provider_calls, line, accepted, repo, change_set, run, configs>>

\* GitAnalyzer.get_unstaged_changes()
GetUnstagedChanges ==
    /\ pc = "start"
    /\ changes' = get_unstaged_changes(repo)
    /\ pc' = "unstaged read"
    /\ UNCHANGED <<level, report, review_result, provider_calls, line, accepted, repo, change_set, run, configs>>

\* GitAnalyzer.get_all_changes(include_untracked)
GetAllChanges ==
    /\ pc = "start"
    /\ \E include_untracked \in BOOLEAN :
          change_set' = get_all_changes(repo, include_untracked)
    /\ pc' = "all read"
    /\ UNCHANGED <<changes, level, report, review_result, provider_calls, line, accepted, repo, run, configs>>

NextReader == GetStagedChanges \/ GetUnstagedChanges \/ GetAllChanges

(***************************************************************************)
(* Repositories: at most MaxEntries paths with pending changes, among them *)
(* new files of ten lines, with and without a final newline, an empty new  *)
(* file, a renamed file, and a file of which only the mode changed         *)
(***************************************************************************)

MaxEntries == 2

RepoEntries ==
    LET RepoEntry(status, path, content, cached, diff) ==
            [status |-> status, path |-> path, content |-> content,
             cached |-> cached, diff |-> diff]
        TEN_LINES == <<"l","0","\n","l","1","\n","l","2","\n","l","3","\n","l","4","\n","l","5","\n","l","6","\n","l","7","\n","l","8","\n","l","9","\n">>
        TEN_LINES_NO_FINAL_NEWLINE == <<"l","0","\n","l","1","\n","l","2","\n","l","3","\n","l","4","\n","l","5","\n","l","6","\n","l","7","\n","l","8","\n","l","9">>
        MODIFIED_DIFF ==
            <<"d","i","f","f"," ","-","-","g","i","t"," ","a","/","a",".","p","y"," ","b","/","a",".","p","y","\n","i","n","d","e","x"," ","1","d","2",".",".","3","f","4"," ","1","0","0","6","4","4","\n","-","-","-"," ","a","/","a",".","p","y","\n","+","+","+"," ","b","/","a",".","p","y","\n","@","@"," ","-","1"," ","+","1",",","2"," ","@","@","\n","-","x"," ","="," ","1","\n","+","x"," ","="," ","2","\n","+","y"," ","="," ","3">>
        DELETED_DIFF ==
            <<"d","i","f","f"," ","-","-","g","i","t"," ","a","/","o","l","d",".","p","y"," ","b","/","o","l","d",".","p","y","\n","d","e","l","e","t","e","d"," ","f","i","l","e"," ","m","o","d","e"," ","1","0","0","6","4","4","\n","i","n","d","e","x"," ","1","d","2",".",".","0","0","0","\n","-","-","-"," ","a","/","o","l","d",".","p","y","\n","+","+","+"," ","/","d","e","v","/","n","u","l","l","\n","@","@"," ","-","1",",","2"," ","+","0",",","0"," ","@","@","\n","-","x"," ","="," ","1","\n","-","y"," ","="," ","2">>
        MODE_DIFF == <<"d","i","f","f"," ","-","-","g","i","t"," ","a","/","r","u","n",".","s","h"," ","b","/","r","u","n",".","s","h","\n","o","l","d"," ","m","o","d","e"," ","1","0","0","6","4","4","\n","n","e","w"," ","m","o","d","e"," ","1","0","0","7","5","5">>
        \* the text as a subprocess prints it: with its last newline
        Stdout(text) == text \o << NL >>
    IN
    { RepoEntry(<<"M"," "," ","a",".","p","y">>, <<"a",".","p","y">>, << <<"x"," ","="," ","2","\n","y"," ","="," ","3","\n">> >>, << MODIFIED_DIFF >>, <<>>),
      RepoEntry(<<" ","M"," ","b",".","p","y">>, <<"b",".","p","y">>, << <<"x"," ","="," ","2","\n","y"," ","="," ","3","\n">> >>, << <<>> >>, Stdout(MODIFIED_DIFF)),
      RepoEntry(<<"M","M"," ","b","o","t","h",".","p","y">>, <<"b","o","t","h",".","p","y">>, << <<"x"," ","="," ","2","\n","y"," ","="," ","3","\n">> >>, << MODIFIED_DIFF >>,
                Stdout(MODIFIED_DIFF)),
      RepoEntry(<<"M"," "," ","r","u","n",".","s","h">>, <<"r","u","n",".","s","h">>, << <<"l","s","\n">> >>, << MODE_DIFF >>, <<>>),
      RepoEntry(<<"D"," "," ","o","l","d",".","p","y">>, <<"o","l","d",".","p","y">>, << >>, << >>, <<>>),
      RepoEntry(<<"D"," "," ","k","e","p","t",".","p","y">>, <<"k","e","p","t",".","p","y">>, << <<"x"," ","="," ","1","\n","y"," ","="," ","2","\n">> >>, << DELETED_DIFF >>, <<>>),
      RepoEntry(<<" ","D"," ","l","o","s","t",".","p","y">>, <<"l","o","s","t",".","p","y">>, << >>, << >>, Stdout(DELETED_DIFF)),
      RepoEntry(<<"R"," "," ","w","a","s",".","p","y"," ","-",">"," ","n","o","w",".","p","y">>, <<"n","o","w",".","p","y">>, << <<"x"," ","="," ","1","\n">> >>, << <<>> >>, <<>>),
      RepoEntry(<<"A"," "," ","n","e","w",".","p","y">>, <<"n","e","w",".","p","y">>, << TEN_LINES >>, << <<>> >>, <<>>),
      RepoEntry(<<"A"," "," ","t","e","n",".","p","y">>, <<"t","e","n",".","p","y">>, << TEN_LINES_NO_FINAL_NEWLINE >>, << <<>> >>, <<>>),
      RepoEntry(<<"A"," "," ","e","m","p","t","y",".","p","y">>, <<"e","m","p","t","y",".","p","y">>, << <<>> >>, << <<>> >>, <<>>),
      RepoEntry(<<"A","D"," ","g","o","n","e",".","p","y">>, <<"g","o","n","e",".","p","y">>, << >>, << >>, Stdout(DELETED_DIFF)),
      RepoEntry(<<" ","A"," ","l","a","t","e","r",".","p","y">>, <<"l","a","t","e","r",".","p","y">>, << <<"x","\n","y","\n">> >>, << <<>> >>, <<>>),
      RepoEntry(<<" ","A"," ","b","l","a","n","k",".","p","y">>, <<"b","l","a","n","k",".","p","y">>, << <<>> >>, << <<>> >>, <<>>),
      RepoEntry(<<"?","?"," ","k","e","p","t",".","p","y">>, <<"k","e","p","t",".","p","y">>, << <<"x"," ","="," ","1","\n","y"," ","="," ","2","\n">> >>, << >>, <<>>),
      RepoEntry(<<"?","?"," ","n","o","t","e","s",".","t","x","t">>, <<"n","o","t","e","s",".","t","x","t">>, << TEN_LINES >>, << <<>> >>, <<>>),
      RepoEntry(<<"?","?"," ","t","o","d","o",".","t","x","t">>, <<"t","o","d","o",".","t","x","t">>, << TEN_LINES_NO_FINAL_NEWLINE >>, << <<>> >>, <<>>) }

\* git prints a path on one line, but for a file taken out of the index and left
\* on disk (git rm --cached): it is deleted in the index and untracked
Repositories ==
    { r \in ListsUpTo(RepoEntries, MaxEntries) :
        /\ \A i, j \in DOMAIN r :
              i # j /\ r[i].path = r[j].path => r[i].path = <<"k","e","p","t",".","p","y">> /\ r[i] # r[j]
        /\ (\E i \in DOMAIN r : r[i].status = <<"?","?"," ","k","e","p","t",".","p","y">>)
              <=> (\E i \in DOMAIN r : r[i].status = <<"D"," "," ","k","e","p","t",".","p","y">>) }

\* the state of the reviewer while the readers or main() are looked at
NoReview ==
    /\ changes = <<>>
    /\ level = QUICK
    /\ report = <<>>
    /\ review_result = [status |-> "none"]
    /\ provider_calls = <<>>
    /\ line = <<>>
    /\ accepted = "unset"

InitReader ==
    /\ repo \in Repositories
    /\ change_set = [built |-> FALSE]
    /\ configs = ConfigManagerClass
    /\ run = [pc |-> "not started"]
    /\ pc = "start"
    /\ NoReview

SpecReader == InitReader /\ [][NextReader]_vars

(***************************************************************************)
(* The commit-message providers: _build_prompt of OpenAIProvider,          *)
(* GeminiProvider and AnthropicProvider of src/commit_message_generator.py *)
(* (the same statements in the three)                                      *)
(***************************************************************************)

\* the text of the prompt before the files, and the text after them
MESSAGE_PROMPT_HEAD ==
    <<"Y","o","u"," ","a","r","e"," ","a"," ","G","i","t"," ","c","o","m","m","i","t"," ","m","e","s","s","a","g","e"," ","e","x","p","e","r","t","."," ","W","r","i","t","e"," ","O","N","E"," ","S","P","E","C","I","F","I","C"," ","c","o","m","m","i","t"," ","m","e","s","s","a","g","e",".","\n","\n","U+1F6A8"," ","C","R","I","T","I","C","A","L"," ","R","U","L","E","S",":","\n","1","."," ","B","e"," ","S","P","E","C","I","F","I","C"," ","-"," ","s","a","y"," ","W","H","A","T"," ","w","a","s"," ","a","d","d","e","d","/","f","i","x","e","d",","," ","n","o","t"," ","g","e","n","e","r","i","c"," ","t","e","r","m","s","\n","2","."," ","A","V","O","I","D",":"," ","i","m","p","l","e","m","e","n","t",","," ","f","u","n","c","t","i","o","n","a","l","i","t","y",","," ","f","e","a","t","u","r","e",","," ","i","m","p","r","o","v","e",","," ","u","p","d","a","t","e",","," ","c","h","a","n","g","e",","," ","e","n","d","p","o","i","n","t",","," ","r","e","s","o","u","r","c","e",","," ","s","e","r","v","i","c","e",","," ","l","o","g","i","c","\n","3","."," ","U","S","E",":"," ","a","d","d"," ","[","s","p","e","c","i","f","i","c"," ","t","h","i","n","g","]",","," ","f","i","x"," ","[","s","p","e","c","i","f","i","c"," ","b","u","g","]",","," ","r","e","f","a","c","t","o","r"," ","[","s","p","e","c","i","f","i","c"," ","p","a","r","t","]","\n","4","."," ","M","a","x"," ","6","0"," ","c","h","a","r","a","c","t","e","r","s",","," ","l","o","w","e","r","c","a","s","e"," ","a","f","t","e","r"," ","c","o","l","o","n","\n","\n","U+1F4CC"," ","T","Y","P","E"," ","R","U","L","E","S",":","\n","-"," ","f","e","a","t",":"," ","N","E","W"," ","f","u","n","c","t","i","o","n","a","l","i","t","y"," ","(","n","e","w"," ","m","e","t","h","o","d","s","/","A","P","I","s","/","e","n","d","p","o","i","n","t","s",")","\n","-"," ","f","i","x",":"," ","B","U","G"," ","f","i","x"," ","(","f","i","x","i","n","g"," ","b","r","o","k","e","n"," ","b","e","h","a","v","i","o","r",")","\n","-"," ","r","e","f","a","c","t","o","r",":"," ","C","o","d","e"," ","r","e","s","t","r","u","c","t","u","r","e"," ","(","N","O"," ","n","e","w"," ","f","e","a","t","u","r","e","s",")","\n","\n","U+2705"," ","G","O","O","D"," ","(","S","P","E","C","I","F","I","C",")",":","\n","-"," ","f","e","a","t",":"," ","a","d","d"," ","c","o","n","f","i","g"," ","c","o","m","p","a","r","i","s","o","n"," ","v","a","l","i","d","a","t","i","o","n","\n","-"," ","f","e","a","t",":"," ","a","d","d"," ","J","W","T"," ","t","o","k","e","n"," ","r","e","f","r","e","s","h"," ","e","n","d","p","o","i","n","t","\n","-"," ","f","e","a","t",":"," ","a","d","d"," ","r","o","l","l","b","a","c","k"," ","h","a","n","d","l","i","n","g"," ","f","o","r"," ","t","r","a","n","s","f","e","r","s","\n","-"," ","f","i","x",":"," ","n","u","l","l"," ","p","o","i","n","t","e","r"," ","i","n"," ","u","s","e","r"," ","l","o","o","k","u","p","\n","-"," ","f","i","x",":"," ","v","a","l","i","d","a","t","i","o","n"," ","e","r","r","o","r"," ","i","n"," ","e","m","a","i","l"," ","f","o","r","m","a","t","\n","\n","U+274C"," ","B","A","D"," ","(","T","O","O"," ","G","E","N","E","R","I","C"," ","-"," ","F","O","R","B","I","D","D","E","N","!",")",":","\n","-"," ","f","e","a","t",":"," ","i","m","p","l","e","m","e","n","t"," ","t","r","a","n","s","f","e","r"," ","f","u","n","c","t","i","o","n","a","l","i","t","y"," ","U+274C","\n","-"," ","f","e","a","t",":"," ","a","d","d"," ","n","e","w"," ","f","e","a","t","u","r","e"," ","U+274C","\n","-"," ","f","e","a","t",":"," ","i","m","p","r","o","v","e"," ","s","e","r","v","i","c","e"," ","U+274C","\n","-"," ","f","i","x",":"," ","u","p","d","a","t","e"," ","c","o","d","e"," ","U+274C","\n","-"," ","r","e","f","a","c","t","o","r",":"," ","r","e","s","t","r","u","c","t","u","r","e"," ","c","o","d","e"," ","U+274C","\n","\n","U+1F4A1"," ","H","O","W"," ","T","O"," ","B","E"," ","S","P","E","C","I","F","I","C",":","\n","L","o","o","k"," ","a","t"," ","m","e","t","h","o","d"," ","n","a","m","e","s",","," ","e","n","d","p","o","i","n","t","s",","," ","c","l","a","s","s"," ","n","a","m","e","s"," ","i","n"," ","t","h","e"," ","d","i","f","f","!","\n","-"," ","S","e","e"," ","'","c","o","m","p","a","r","e","C","o","n","f","i","g","s","(",")","'"," ","U+2192"," ","s","a","y"," ","'","a","d","d"," ","c","o","n","f","i","g"," ","c","o","m","p","a","r","i","s","o","n","'","\n","-"," ","S","e","e"," ","'","v","a","l","i","d","a","t","e","T","r","a","n","s","f","e","r","(",")","'"," ","U+2192"," ","s","a","y"," ","'","a","d","d"," ","t","r","a","n","s","f","e","r"," ","v","a","l","i","d","a","t","i","o","n","'","\n","-"," ","S","e","e"," ","'","@","P","O","S","T"," ","/","r","o","l","l","b","a","c","k","'"," ","U+2192"," ","s","a","y"," ","'","a","d","d"," ","r","o","l","l","b","a","c","k"," ","e","n","d","p","o","i","n","t","'","\n","\n","G","i","t"," ","C","h","a","n","g","e","s",":","\n","U+2501","U+2501","U+2501","U+2501","U+2501","U+2501","U+2501","U+2501","U+2501","U+2501","U+2501","U+2501","U+2501","U+2501","U+2501","U+2501","U+2501","U+2501","U+2501","U+2501","U+2501","U+2501","U+2501","U+2501","U+2501","U+2501","U+2501","U+2501","U+2501","U+2501","U+2501","\n">>
MESSAGE_PROMPT_TAIL ==
    <<"\n","U+2501","U+2501","U+2501","U+2501","U+2501","U+2501","U+2501","U+2501","U+2501","U+2501","U+2501","U+2501","U+2501","U+2501","U+2501","U+2501","U+2501","U+2501","U+2501","U+2501","U+2501","U+2501","U+2501","U+2501","U+2501","U+2501","U+2501","U+2501","U+2501","U+2501","U+2501","\n","\n","U+1F3AF"," ","Y","O","U","R"," ","T","A","S","K",":"," ","R","e","a","d"," ","t","h","e"," ","A","C","T","U","A","L"," ","m","e","t","h","o","d"," ","n","a","m","e","s"," ","a","b","o","v","e"," ","a","n","d"," ","w","r","i","t","e"," ","a"," ","c","o","m","m","i","t"," ","m","e","s","s","a","g","e",".","\n","\n","U+1F4D6"," ","S","T","E","P"," ","1",":"," ","L","o","o","k"," ","a","t"," ","'","D","E","T","E","C","T","E","D"," ","N","E","W"," ","M","E","T","H","O","D","S","/","F","U","N","C","T","I","O","N","S","'"," ","s","e","c","t","i","o","n",".","\n"," "," "," ","E","x","t","r","a","c","t"," ","A","C","T","I","O","N"," ","f","r","o","m"," ","e","a","c","h"," ","m","e","t","h","o","d"," ","n","a","m","e",":","\n"," "," "," ","-"," ","M","e","t","h","o","d"," ","n","a","m","e"," ","f","o","r","m","a","t",":"," ","U+0060","a","c","t","i","o","n","S","u","b","j","e","c","t","U+0060"," ","(","e",".","g",".",","," ","U+0060","g","e","t","U","s","e","r","D","a","t","a","U+0060",","," ","U+0060","v","a","l","i","d","a","t","e","E","m","a","i","l","U+0060",","," ","U+0060","e","x","p","o","r","t","R","e","p","o","r","t","U+0060",")","\n"," "," "," ","-"," ","E","x","t","r","a","c","t",":"," ","a","c","t","i","o","n"," ","+"," ","w","h","a","t"," ","(","e",".","g",".",","," ","'","g","e","t"," ","u","s","e","r"," ","d","a","t","a","'",","," ","'","v","a","l","i","d","a","t","e"," ","e","m","a","i","l","'",","," ","'","e","x","p","o","r","t"," ","r","e","p","o","r","t","'",")","\n","\n","U+1F6A8"," ","C","R","I","T","I","C","A","L",":"," ","U","s","e"," ","O","N","L","Y"," ","w","h","a","t"," ","y","o","u"," ","s","e","e"," ","i","n"," ","t","h","e"," ","a","c","t","u","a","l"," ","m","e","t","h","o","d"," ","n","a","m","e","s","."," ","D","o"," ","N","O","T"," ","i","n","v","e","n","t","!","\n","\n","U+1F4DD"," ","S","T","E","P"," ","2",":"," ","D","e","c","i","d","e"," ","c","o","m","m","i","t"," ","t","y","p","e",".","\n"," "," "," ","-"," ","N","E","W"," ","p","u","b","l","i","c"," ","m","e","t","h","o","d","s","/","A","P","I","s"," ","U+2192"," ","U+0060","f","e","a","t",":","U+0060","\n"," "," "," ","-"," ","C","o","d","e"," ","r","e","s","t","r","u","c","t","u","r","e"," ","o","n","l","y"," ","U+2192"," ","U+0060","r","e","f","a","c","t","o","r",":","U+0060","\n","\n","U+270D","U+FE0F"," ","S","T","E","P"," ","3",":"," ","W","r","i","t","e"," ","m","e","s","s","a","g","e"," ","(","m","a","x"," ","6","0"," ","c","h","a","r","s",")",".","\n"," "," "," ","F","o","r","m","a","t",":"," ","U+0060","f","e","a","t",":"," ","a","d","d"," ","[","a","c","t","i","o","n","1","]",","," ","[","a","c","t","i","o","n","2","]","U+0060","\n"," "," "," ","E","x","a","m","p","l","e"," ","p","a","t","t","e","r","n",":"," ","U+0060","f","e","a","t",":"," ","a","d","d"," ","u","s","e","r"," ","r","e","t","r","i","e","v","a","l",","," ","e","m","a","i","l"," ","v","a","l","i","d","a","t","i","o","n","U+0060","\n","\n","U+274C"," ","F","O","R","B","I","D","D","E","N",":"," ","e","n","d","p","o","i","n","t",","," ","r","e","s","o","u","r","c","e",","," ","s","e","r","v","i","c","e",","," ","l","o","g","i","c",","," ","f","u","n","c","t","i","o","n","a","l","i","t","y",","," ","o","p","e","r","a","t","i","o","n","s","\n","U+2705"," ","A","L","L","O","W","E","D",":"," ","l","i","s","t",","," ","g","e","t",","," ","c","o","m","p","a","r","e",","," ","t","r","a","n","s","f","e","r",","," ","e","x","p","o","r","t",","," ","v","a","l","i","d","a","t","e",","," ","i","m","p","o","r","t",","," ","d","e","l","e","t","e","\n","\n","W","r","i","t","e"," ","c","o","m","m","i","t"," ","m","e","s","s","a","g","e"," ","b","a","s","e","d"," ","o","n"," ","A","C","T","U","A","L"," ","m","e","t","h","o","d"," ","n","a","m","e","s",":">>

\* the prompt of generate_commit_message: for every file its path, kind and counts
\* and, read from the first 200 lines of its diff, the added lines that look like
\* new methods (10 at most), those that look like endpoints (8 at most), and the
\* first 20 added and 10 removed lines, stripped, those longer than 3 characters
_build_message_prompt(files) ==
    LET change_symbol(t) ==
            CASE t = <<"A">> -> <<"U+1F195"," ","A","D","D","E","D"," ","(","N","E","W"," ","F","I","L","E",")">>
              [] t = <<"M">> -> <<"U+1F4DD"," ","M","O","D","I","F","I","E","D">>
              [] t = <<"D">> -> <<"U+1F5D1","U+FE0F"," "," ","D","E","L","E","T","E","D">>
              [] t = <<"R">> -> <<"U+1F4CB"," ","R","E","N","A","M","E","D">>
              [] OTHER -> <<"C","H","A","N","G","E","D">>
        Listed(items, lead, width) ==
            ConcatAll([i \in 1..Len(items) |-> lead \o Take(items[i], width) \o << NL >>])
        Stripped(ls) == [i \in 1..Len(ls) |-> Strip(Drop(ls[i], 1))]
        LongerThanThree(ls) == SelectSeq(ls, LAMBDA l : Len(l) > 3)
        File(change) ==
            LET diff_lines == Take(Split(change.diff, NL), 200)
                added_lines == Stripped(SelectSeq(diff_lines, IsAddedLine))
                removed_lines == Stripped(SelectSeq(diff_lines, IsRemovedLine))
                new_methods ==
                    SelectSeq(added_lines,
                              LAMBDA a : /\ \E keyword \in {<<"p","u","b","l","i","c"," ">>, <<"p","r","i","v","a","t","e"," ">>, <<"p","r","o","t","e","c","t","e","d"," ">>,
                                                            <<"d","e","f"," ">>, <<"f","u","n","c","t","i","o","n"," ">>, <<"a","s","y","n","c"," ">>, <<"@">>} :
                                              Contains(a, keyword)
                                         /\ Contains(a, <<"(">>))
                endpoints ==
                    SelectSeq(added_lines,
                              LAMBDA a : /\ StartsWith(a, <<"@">>)
                                         /\ \E marker \in {<<"M","a","p","p","i","n","g">>, <<"R","e","q","u","e","s","t","M","a","p","p","i","n","g">>, <<"P","a","t","h">>,
                                                           <<"R","o","u","t","e">>} : Contains(a, marker))
            IN  <<"\n","F","i","l","e",":"," ">> \o change.path \o <<" ","(">> \o change_symbol(change.change_type) \o <<")","\n">>
                \o <<"S","t","a","t","s",":"," ","+">> \o IntToStr(change.insertions) \o <<" ","/"," ","-">>
                \o IntToStr(change.deletions) \o <<" ","l","i","n","e","s","\n">>
                \o (IF change.diff = <<>> THEN <<>>
                    ELSE (IF new_methods = <<>> THEN <<>>
                          ELSE <<"\n","U+26A0","U+FE0F"," "," ","D","E","T","E","C","T","E","D"," ">> \o IntToStr(Len(new_methods))
                               \o <<" ","N","E","W"," ","M","E","T","H","O","D","S","/","F","U","N","C","T","I","O","N","S"," ","-"," ","T","h","i","s"," ","i","s"," ","l","i","k","e","l","y"," ","a"," ","F","E","A","T",","," ","n","o","t"," ","r","e","f","a","c","t","o","r","!","\n">>
                               \o <<"N","e","w"," ","m","e","t","h","o","d","s",":","\n">> \o Listed(Take(new_methods, 10), <<" "," ","+"," ">>, 120))
                         \o (IF endpoints = <<>> THEN <<>>
                             ELSE <<"D","e","t","e","c","t","e","d"," ","e","n","d","p","o","i","n","t","s","/","a","n","n","o","t","a","t","i","o","n","s",":","\n">>
                                  \o Listed(Take(endpoints, 8), <<" "," ","+"," ">>, 120))
                         \o (IF added_lines = <<>> /\ removed_lines = <<>> THEN <<>>
                             ELSE <<"\n","K","e","y"," ","c","h","a","n","g","e","s",":","\n">>
                                  \o (IF added_lines = <<>> THEN <<>>
                                      ELSE <<" "," ","A","D","D","E","D"," ","(">> \o IntToStr(Len(added_lines)) \o <<" ","l","i","n","e","s",")",":","\n">>
                                           \o Listed(LongerThanThree(Take(added_lines, 20)),
                                                     <<" "," "," "," ","+"," ">>, 120))
                                  \o (IF removed_lines = <<>> THEN <<>>
                                      ELSE <<" "," ","R","E","M","O","V","E","D"," ","(">> \o IntToStr(Len(removed_lines))
                                           \o <<" ","l","i","n","e","s",")",":","\n">>
                                           \o Listed(LongerThanThree(Take(removed_lines, 10)),
                                                     <<" "," "," "," ","-"," ">>, 100))))
    IN  MESSAGE_PROMPT_HEAD
        \o ConcatAll([i \in 1..Len(files) |-> File(files[i])])
        \o MESSAGE_PROMPT_TAIL

(***************************************************************************)
(* One run of the program: main() of src/auto_commit.py                    *)
(*                                                                         *)
(* run.pc is the statement main() is at.  run.args is what parse_args      *)
(* returned, run.env what the run finds outside the repository: the        *)
(* credential and the values of the configuration that validate() looks    *)
(* at (the temperature in tenths), whether the directory is a repository,  *)
(* git.auto_add and review.enabled of the configuration.  run.exit_code is *)
(* << >> while the run goes on and << code >> when the process has ended.  *)
(* run.repo_reads counts the reads of the repository, run.invocations      *)
(* lists the provider invocations, run.commits the messages of the         *)
(* commits created.  A KeyboardInterrupt or an unexpected exception can    *)
(* come at every statement of the try block.                               *)
(***************************************************************************)

reviewer_vars == <<changes, level, pc, report, review_result, provider_calls, line, accepted>>

\* an exit that reports an interrupt as a failure
Exit_interrupt_as_failure(code, why) ==
    [run EXCEPT !.pc = "exited", !.exit_code = << IF code = 130 THEN 1 ELSE code >>, !.why = why]

\* sys.exit(code), at the statement the run is at; why names the statement
Exit(code, why) == [run EXCEPT !.pc = "exited", !.exit_code = << code >>, !.why = why]

\* an invocation that calls the API again when the call failed
provider_invocation_with_retry(method, provider, files, api_ok) ==
    LET api == CASE provider = "openai" -> "chat.completions.create"
                 [] provider = "anthropic" -> "messages.create"
                 [] provider = "gemini" -> "generate_content"
    IN  [method |-> method, provider |-> provider, files |-> files,
         prompt |-> IF method = "review_code" THEN _build_prompt(compress(files, QUICK), QUICK)
                    ELSE _build_message_prompt(files),
         remote_calls |-> IF api_ok THEN << api >> ELSE << api, api >>, raised |-> ~api_ok]

\* one invocation of review_code or generate_commit_message of the OpenAI, the
\* Anthropic or the Gemini provider: it builds the prompt, calls the API of its
\* client once inside a try, and returns the text or raises RuntimeError.
\* CodeReviewer.review hands review_code the report of DiffCompressor.compress;
\* the level is the default of main(), 'quick' (no --review-level and no
\* review.default_level in the runs).  generate_commit_message is handed the files
provider_invocation(method, provider, files, api_ok) ==
    LET api == CASE provider = "openai" -> "chat.completions.create"
                 [] provider = "anthropic" -> "messages.create"
                 [] provider = "gemini" -> "generate_content"
    IN  [method |-> method, provider |-> provider, files |-> files,
         prompt |-> IF method = "review_code" THEN _build_prompt(compress(files, QUICK), QUICK)
                    ELSE _build_message_prompt(files),
         remote_calls |-> << api >>, raised |-> ~api_ok]

\* line 186: parser.parse_args(), before the try block.  argparse ends the process
\* itself on a command line it rejects (exit code 2) and on --help (exit code 0)
ParseArgs ==
    /\ run.pc = "parse_args"
    /\ run' = IF run.args.usage = "error" THEN Exit(2, "usage error")
              ELSE IF run.args.usage = "help" THEN Exit(0, "help")
              ELSE [run EXCEPT !.pc = "load_config"]
    /\ UNCHANGED <<reviewer_vars, repo, change_set, configs>>

\* ConfigManager.validate(): the credential of the provider is set, and the three
\* values are in their ranges
validate(env) ==
    /\ env.api_key
    /\ ~(env.temperature < 0 \/ env.temperature > 10)
    /\ ~(env.max_tokens <= 0)
    /\ ~(env.max_subject_length <= 0)

\* a main() that does not look at what validate() returned
LoadConfig_without_validation ==
    /\ run.pc = "load_config"
    /\ run' = [run EXCEPT !.pc = "open_repository"]
    /\ UNCHANGED <<reviewer_vars, repo, change_set, configs>>

\* lines 189-195: ConfigManager(...), config.validate()
LoadConfig ==
    /\ run.pc = "load_config"
    /\ run' = IF ~validate(run.env) THEN Exit(1, "invalid configuration")
              ELSE [run EXCEPT !.pc = "open_repository"]
    /\ UNCHANGED <<reviewer_vars, repo, change_set, configs>>

\* lines 200-206: GitAnalyzer() raises ValueError outside a repository, and the
\* handler at 405 ends the run; analyzer.has_changes()
OpenRepository ==
    /\ run.pc = "open_repository"
    /\ run' = IF ~run.env.is_repository THEN Exit(1, "not a repository")
              ELSE IF repo = <<>> THEN [Exit(0, "no changes") EXCEPT !.repo_reads = @ + 1]
              ELSE [run EXCEPT !.pc = "get_all_changes", !.repo_reads = @ + 1]
    /\ UNCHANGED <<reviewer_vars, repo, change_set, configs>>

\* lines 209-221: analyzer.get_all_changes(...), the --files filter, which counts
\* the files again, and the exit when no file is left
ReadChanges ==
    /\ run.pc = "get_all_changes"
    /\ LET built == get_all_changes(repo, ~run.args.staged_only)
           Selected(files) == SelectSeq(files, LAMBDA f : f.path \in run.args.files[1])
           filtered ==
               IF run.args.files # <<>>
               THEN [built EXCEPT !.staged_files = Selected(built.staged_files),
                                  !.unstaged_files = Selected(built.unstaged_files),
                                  !.total_files = Len(Selected(built.staged_files))
                                                  + Len(Selected(built.unstaged_files))]
               ELSE built
       IN  /\ change_set' = filtered
           /\ run' = IF filtered.total_files = 0
                     THEN [Exit(0, "nothing to commit") EXCEPT !.repo_reads = @ + 1]
                     ELSE [run EXCEPT !.pc = "unstaged", !.repo_reads = @ + 1]
    /\ UNCHANGED <<reviewer_vars, repo, configs>>

\* lines 227-264: the unstaged files are staged or dropped, files_to_commit is
\* made, and the run ends when it is empty.  GitAnalyzer has no method
\* stage_file_changes (it has stage_files and stage_all): the two calls at 233 and
\* 238 raise AttributeError, which the handler at 405 turns into exit code 1
HandleUnstaged ==
    /\ run.pc = "unstaged"
    /\ LET handled == change_set.unstaged_files # <<>> /\ ~run.args.staged_only
           auto_add == run.env.auto_add /\ ~run.args.no_add
           asks == handled /\ ~auto_add /\ ~run.args.auto_yes
           should_review == \/ run.args.review \/ run.args.review_only
                            \/ (run.env.review_enabled /\ ~run.args.no_review)
           \* line 248 and after, with the unstaged files that are left; the provider
           \* is the one AI_PROVIDER names (config.get_ai_provider() at 255)
           Continue(unstaged, provider) ==
               IF change_set.staged_files \o unstaged = <<>> THEN Exit(0, "nothing to commit")
               ELSE [run EXCEPT !.pc = IF should_review THEN "review" ELSE "generate",
                                !.provider = provider,
                                !.files_to_commit = change_set.staged_files \o unstaged]
       IN  \E add_files \in (IF asks THEN BOOLEAN ELSE {FALSE}) :
           \E provider \in {"openai", "anthropic", "gemini"} :
              IF handled /\ (auto_add \/ add_files)
              THEN run' = Exit(1, "staging failed") /\ UNCHANGED change_set
              ELSE IF handled
              THEN /\ change_set' = [change_set EXCEPT !.unstaged_files = <<>>]
                   /\ run' = Continue(<<>>, provider)
              ELSE /\ UNCHANGED change_set
                   /\ run' = Continue(change_set.unstaged_files, provider)
    /\ UNCHANGED <<reviewer_vars, repo, configs>>

\* a review step of which every failure ends the run
ReviewStep_failure_always_ends ==
    /\ run.pc = "review"
    /\ \E outcome \in {"reviewed", "call failed", "no reviewer"} :
         LET invoked ==
                 IF outcome = "no reviewer" THEN run.invocations
                 ELSE Append(run.invocations,
                             provider_invocation("review_code", run.provider,
                                                 run.files_to_commit, outcome = "reviewed"))
             failed == outcome # "reviewed"
         IN  run' = [(IF failed THEN Exit(1, "review failed")
                      ELSE IF run.args.review_only THEN Exit(0, "review only")
                      ELSE [run EXCEPT !.pc = "generate"])
                     EXCEPT !.invocations = invoked, !.review_failed = failed]
    /\ UNCHANGED <<reviewer_vars, repo, change_set, configs>>

\* lines 266-319: CodeReviewer(...) and reviewer.review(files_to_commit, ...) inside
\* their own try.  The constructor can raise before anything is called; review
\* invokes the provider once.  A failure ends the run only with --review-only
ReviewStep ==
    /\ run.pc = "review"
    /\ \E outcome \in {"reviewed", "call failed", "no reviewer"} :
         LET invoked ==
                 IF outcome = "no reviewer" THEN run.invocations
                 ELSE Append(run.invocations,
                             provider_invocation("review_code", run.provider,
                                                 run.files_to_commit, outcome = "reviewed"))
             failed == outcome # "reviewed"
         IN  run' = [(IF failed /\ run.args.review_only THEN Exit(1, "review failed")
                      ELSE IF run.args.review_only THEN Exit(0, "review only")
                      ELSE [run EXCEPT !.pc = "generate"])
                     EXCEPT !.invocations = invoked, !.review_failed = failed]
    /\ UNCHANGED <<reviewer_vars, repo, change_set, configs>>

\* a generation step that calls the provider a second time when the call failed
GenerateMessage_again_after_failure ==
    /\ run.pc = "generate"
    /\ \E outcome \in {"generated", "call failed", "no generator"} :
       \E text \in (IF outcome = "generated" THEN {<<"f","i","x",":"," ","r","e","t","r","y">>, <<>>} ELSE {<<>>}) :
         LET invoked ==
                 IF outcome = "no generator" THEN run.invocations
                 ELSE Append(run.invocations,
                             provider_invocation("generate_commit_message", run.provider,
                                                 run.files_to_commit, outcome = "generated"))
             again == outcome = "call failed" /\ Len(run.invocations) < 2
         IN  run' = [(IF again THEN run
                      ELSE IF outcome # "generated" THEN Exit(1, "generation failed")
                      ELSE IF run.args.dry_run THEN Exit(0, "dry run")
                      ELSE [run EXCEPT !.pc = "confirm", !.commit_message = text])
                     EXCEPT !.invocations = invoked,
                            !.generated = (outcome = "generated")]
    /\ UNCHANGED <<reviewer_vars, repo, change_set, configs>>

\* a generation step that goes on to the confirmation with --dry-run
GenerateMessage_dry_run_goes_on ==
    /\ run.pc = "generate"
    /\ \E outcome \in {"generated", "call failed", "no generator"} :
       \E text \in (IF outcome = "generated" THEN {<<"f","i","x",":"," ","r","e","t","r","y">>, <<>>} ELSE {<<>>}) :
         LET invoked ==
                 IF outcome = "no generator" THEN run.invocations
                 ELSE Append(run.invocations,
                             provider_invocation("generate_commit_message", run.provider,
                                                 run.files_to_commit, outcome = "generated"))
         IN  run' = [(IF outcome # "generated" THEN Exit(1, "generation failed")
                      ELSE [run EXCEPT !.pc = "confirm", !.commit_message = text])
                     EXCEPT !.invocations = invoked,
                            !.generated = (outcome = "generated")]
    /\ UNCHANGED <<reviewer_vars, repo, change_set, configs>>

\* lines 321-351: CommitMessageGenerator(...) and generator.generate(files_to_commit,
\* ...) inside a try whose handler ends the run; the message is the stripped text
\* of the response, which can be empty; --dry-run ends the run here
GenerateMessage ==
    /\ run.pc = "generate"
    /\ \E outcome \in {"generated", "call failed", "no generator"} :
       \E text \in (IF outcome = "generated" THEN {<<"f","i","x",":"," ","r","e","t","r","y">>, <<>>} ELSE {<<>>}) :
         LET invoked ==
                 IF outcome = "no generator" THEN run.invocations
                 ELSE Append(run.invocations,
                             provider_invocation("generate_commit_message", run.provider,
                                                 run.files_to_commit, outcome = "generated"))
         IN  run' = [(IF outcome # "generated" THEN Exit(1, "generation failed")
                      ELSE IF run.args.dry_run THEN Exit(0, "dry run")
                      ELSE [run EXCEPT !.pc = "confirm", !.commit_message = text])
                     EXCEPT !.invocations = invoked,
                            !.generated = (outcome = "generated")]
    /\ UNCHANGED <<reviewer_vars, repo, change_set, configs>>

\* lines 353-387 and 398-400: --auto-yes, or the answer y, n or e to the prompt
\* (choice; nothing is asked with --auto-yes); with e the lines typed replace the
\* message, and an empty one ends the run
ConfirmCommit ==
    /\ run.pc = "confirm"
    /\ \E choice \in (IF run.args.auto_yes THEN {"y"} ELSE {"y", "n", "e"}) :
       \E typed \in (IF choice = "e" THEN {<<>>, <<" "," ">>, <<"d","o","c","s",":"," ","n","o","t","e">>} ELSE {<<>>}) :
         run' = [(IF choice = "n" THEN Exit(0, "declined")
                  ELSE IF choice = "e" /\ Strip(typed) = <<>> THEN Exit(1, "empty message")
                  ELSE IF choice = "e" THEN [run EXCEPT !.pc = "commit", !.commit_message = typed]
                  ELSE [run EXCEPT !.pc = "commit"])
                 EXCEPT !.choice = IF run.args.auto_yes THEN "" ELSE choice]
    /\ UNCHANGED <<reviewer_vars, repo, change_set, configs>>

\* line 392: analyzer.commit(commit_message) creates the commit or raises, and
\* the handler at 395 ends the run
Commit ==
    /\ run.pc = "commit"
    /\ \E created \in BOOLEAN :
         run' = IF created
                THEN [run EXCEPT !.pc = "commit_created",
                                 !.commits = Append(@, run.commit_message)]
                ELSE Exit(1, "commit failed")
    /\ UNCHANGED <<reviewer_vars, repo, change_set, configs>>

\* lines 393-394: the two lines that report the commit, still inside the try of
\* the commit; main() returns after them and the process ends with code 0
ReportCommit ==
    /\ run.pc = "commit_created"
    /\ run' = Exit(0, "committed")
    /\ UNCHANGED <<reviewer_vars, repo, change_set, configs>>

\* lines 402-404: Ctrl-C at any statement of the try block of main() (lines 188-400)
Interrupt ==
    /\ run.pc \in {"load_config", "open_repository", "get_all_changes", "unstaged", "review",
                  "generate", "confirm", "commit", "commit_created"}
    /\ run' = Exit(130, "interrupt")
    /\ UNCHANGED <<reviewer_vars, repo, change_set, configs>>

\* lines 405-410 (and 395-397 while the commit is reported): an exception nothing
\* else handles, raised by any statement of the try block
UnexpectedException ==
    /\ run.pc \in {"load_config", "open_repository", "get_all_changes", "unstaged", "review",
                  "generate", "confirm", "commit", "commit_created"}
    /\ run' = Exit(1, "exception")
    /\ UNCHANGED <<reviewer_vars, repo, change_set, configs>>

NextRun ==
    \/ ParseArgs \/ LoadConfig \/ OpenRepository \/ ReadChanges \/ HandleUnstaged
    \/ ReviewStep \/ GenerateMessage \/ ConfirmCommit \/ Commit \/ ReportCommit
    \/ Interrupt \/ UnexpectedException

(***************************************************************************)
(* Runs: the command lines, the environments and the repositories          *)
(***************************************************************************)

InitRun ==
    LET \* what parse_args returns: usage is "ok", or the command line is rejected
        \* ("error", e.g. --review-level fast) or asks for help; files is << set >>
        \* with --files and << >> without
        RunArguments ==
            { [usage |-> "ok", files |-> files, staged_only |-> so, dry_run |-> dr, auto_yes |-> ay,
               no_add |-> na, review |-> rv[1], review_only |-> rv[2], no_review |-> rv[3]] :
                files \in {<< >>, << {<<"a",".","p","y">>} >>},
                so \in BOOLEAN, dr \in BOOLEAN, ay \in BOOLEAN, na \in BOOLEAN,
                rv \in {<<FALSE, FALSE, FALSE>>, <<TRUE, FALSE, FALSE>>, <<FALSE, TRUE, FALSE>>,
                        <<FALSE, FALSE, TRUE>>} }
            \cup { [usage |-> u, files |-> << >>, staged_only |-> FALSE, dry_run |-> FALSE,
                    auto_yes |-> FALSE, no_add |-> FALSE, review |-> FALSE, review_only |-> FALSE,
                    no_review |-> FALSE] : u \in {"error", "help"} }
        \* the valid configurations in a repository and outside one, and the
        \* configurations that differ from the default in one value validate() rejects
        RunEnvironments ==
            LET Env(api_key, temperature, max_tokens, max_subject_length, ir, aa, re) ==
                    [api_key |-> api_key, temperature |-> temperature, max_tokens |-> max_tokens,
                     max_subject_length |-> max_subject_length, is_repository |-> ir,
                     auto_add |-> aa, review_enabled |-> re]
            IN  { Env(TRUE, 3, 500, 72, TRUE, aa, re) : aa \in BOOLEAN, re \in BOOLEAN }
                \cup { Env(TRUE, 10, 500, 72, FALSE, FALSE, FALSE),
                       Env(FALSE, 3, 500, 72, TRUE, FALSE, FALSE),
                       Env(TRUE, 11, 500, 72, TRUE, FALSE, FALSE),
                       Env(TRUE, 0 - 1, 500, 72, TRUE, FALSE, FALSE),
                       Env(TRUE, 3, 0, 72, TRUE, FALSE, FALSE),
                       Env(TRUE, 3, 500, 0, TRUE, FALSE, FALSE) }
        \* repositories of at most two of the paths a.py (staged), b.py (unstaged) and
        \* notes.txt (untracked), in the order git lists them
        RunRepositories ==
            { r \in Repositories :
                /\ \A i \in 1..Len(r) : r[i].path \in {<<"a",".","p","y">>, <<"b",".","p","y">>, <<"n","o","t","e","s",".","t","x","t">>}
                /\ \A i \in 2..Len(r) : r[i].path # <<"a",".","p","y">> /\ r[i - 1].path # <<"n","o","t","e","s",".","t","x","t">> }
    IN
    /\ repo \in RunRepositories
    /\ change_set = [built |-> FALSE]
    /\ configs = ConfigManagerClass
    /\ \E args \in RunArguments, env \in RunEnvironments :
          run = [pc |-> "parse_args", args |-> args, env |-> env, exit_code |-> << >>, why |-> "",
                 provider |-> "", files_to_commit |-> << >>, commit_message |-> << >>,
                 repo_reads |-> 0, invocations |-> << >>, commits |-> << >>,
                 review_failed |-> FALSE, generated |-> FALSE, choice |-> ""]
    /\ pc = "start"
    /\ NoReview

SpecRun == InitRun /\ [][NextRun]_vars

(***************************************************************************)
(* Processes that build ConfigManager objects                              *)
(***************************************************************************)

InitConfig ==
    /\ NoRepository
    /\ pc = "start"
    /\ NoReview

SpecConfig == InitConfig /\ [][ConfigManager]_vars

(***************************************************************************)
(* Properties of the mode selection (specification Spec)                   *)
(***************************************************************************)

\* the three shapes a report can have: each mode is recognised by how its text begins
IsSummaryReport(r) == StartsWith(r, <<"U+26A0","U+FE0F"," "," ","U+B300","U+B7C9"," ","U+BCC0","U+ACBD"," ","U+AC10","U+C9C0"," ","-"," ","U+C694","U+C57D"," ","U+B9AC","U+BDF0","\n","\n">>)
IsMinimalReport(r) == StartsWith(r, <<"U+1F4DD"," ","U+BCC0","U+ACBD"," ","U+D30C","U+C77C",":","\n">>)
IsSmartReport(r) == r = <<>> \/ StartsWith(r, <<"\n","U+2501","U+2501","U+2501"," ">>)

\* the sum of insertions + deletions over all files of the list
TotalChangedLines(files) ==
    LET RECURSIVE Sum(_)
        Sum(k) == IF k = 0 THEN 0
                  ELSE Sum(k - 1) + files[k].insertions + files[k].deletions
    IN Sum(Len(files))

\* C1: compress selects its mode from (total, level) only: summary mode exactly when
\* total > 500 and the level is not Detailed; otherwise minimal mode exactly when
\* total > 200 and the level is Quick; otherwise smart mode.  So 600 at Normal is a
\* summary, 600 at Detailed is not, and 500 and 200 do not cross the thresholds.
C1_ModeFromTotalAndLevel ==
    pc = "compressed" =>
        LET total == TotalChangedLines(changes)
            summary == total > 500 /\ level # DETAILED
            minimal == ~summary /\ total > 200 /\ level = QUICK
        IN /\ IsSummaryReport(report) <=> summary
           /\ IsMinimalReport(report) <=> minimal
           /\ IsSmartReport(report) <=> (~summary /\ ~minimal)
           /\ (total = 600 /\ level = NORMAL) => IsSummaryReport(report)
           /\ (total = 600 /\ level = DETAILED) => ~IsSummaryReport(report)
           /\ total \in {200, 500} => (level = NORMAL => IsSmartReport(report))
           /\ total = 200 => ~IsMinimalReport(report)
           /\ total = 500 => ~IsSummaryReport(report)

\* a change set of 600 lines compressed at Normal, which came out as a summary
C1_Witness_Summary600Normal ==
    /\ pc = "compressed"
    /\ TotalChangedLines(changes) = 600
    /\ level = NORMAL
    /\ IsSummaryReport(report)

\* C10: for an empty list of changes, at every level, compress returns the empty
\* report, whose token estimate len(report) // 4 is 0, and review on an empty list
\* reports token_estimate 0 (without calling the provider).
C10_EmptyChangesEmptyReport ==
    changes = <<>> =>
        /\ pc = "compressed" => (report = <<>> /\ Len(report) \div 4 = 0)
        /\ pc = "reviewed" =>
              /\ review_result.status = "returned"
              /\ review_result.token_estimate = 0
              /\ provider_calls = <<>>

\* the empty list has been compressed at the Detailed level
C10_Witness_EmptyCompressed ==
    /\ changes = <<>>
    /\ pc = "compressed"
    /\ level = DETAILED
    /\ report = <<>>

(***************************************************************************)
(* Properties of summary mode (specification Spec)                         *)
(***************************************************************************)

\* the text of a group's line and of a listed file's line, as they are read in a report
GroupLineText(ext, count, total_add, total_del) ==
    <<"U+1F4C1"," ",".">> \o ext \o <<" ","U+D30C","U+C77C",":"," ">> \o IntToStr(count) \o <<"U+AC1C"," ","(","+">>
        \o IntToStr(total_add) \o <<"/","-">> \o IntToStr(total_del) \o <<")">>

FileLineText(f) ==
    <<" "," ","U+2022"," ">> \o f.path \o <<" ","(","+">> \o IntToStr(f.insertions) \o <<"/","-">>
        \o IntToStr(f.deletions) \o <<")">>

\* the positions of `files' whose path has the extension ext
MembersOf(files, ext) == { k \in DOMAIN files : Extension(files[k].path) = ext }

\* the sums of one count over the positions ks of `files'
InsertionsOver(files, ks) ==
    LET RECURSIVE Sum(_)
        Sum(k) == IF k = 0 THEN 0
                  ELSE Sum(k - 1) + (IF k \in ks THEN files[k].insertions ELSE 0)
    IN Sum(Len(files))

DeletionsOver(files, ks) ==
    LET RECURSIVE Sum(_)
        Sum(k) == IF k = 0 THEN 0
                  ELSE Sum(k - 1) + (IF k \in ks THEN files[k].deletions ELSE 0)
    IN Sum(Len(files))

\* C2: in summary mode the files are grouped by extension; every group's line reports
\* the number of its members and the sums of their insertions and of their deletions;
\* the files listed under a group are at most 2 members of it, and no unlisted member
\* has strictly more insertions+deletions than a listed one.
C2_SummaryGroupsAndLargestTwo ==
    (pc = "compressed" /\ IsSummaryReport(report)) =>
        LET lines == Split(report, "\n")
            groups == { g \in DOMAIN lines : StartsWith(lines[g], <<"U+1F4C1"," ",".">>) }
            exts == { Extension(changes[k].path) : k \in DOMAIN changes }
            size(k) == changes[k].insertions + changes[k].deletions
            block_end(g) ==
                IF \E h \in groups : h > g
                THEN (CHOOSE h \in groups : h > g /\ \A h2 \in groups : h2 > g => h <= h2) - 1
                ELSE Len(lines) - 1
            listed(g) == SubSeq(lines, g + 1, block_end(g))
        IN /\ Cardinality(groups) = Cardinality(exts)
           /\ \A e \in exts : \E g \in groups :
                 LET members == MembersOf(changes, e)
                     shown == listed(g)
                 IN /\ lines[g] = GroupLineText(e, Cardinality(members),
                                                InsertionsOver(changes, members),
                                                DeletionsOver(changes, members))
                    /\ Len(shown) <= 2
                    /\ Len(shown) = IF Cardinality(members) < 2 THEN Cardinality(members) ELSE 2
                    /\ \E pick \in [DOMAIN shown -> members] :
                          /\ \A i, j \in DOMAIN shown : i # j => pick[i] # pick[j]
                          /\ \A i \in DOMAIN shown : shown[i] = FileLineText(changes[pick[i]])
                          /\ \A j \in members : \A i \in DOMAIN shown :
                                (\A i2 \in DOMAIN shown : pick[i2] # j) => size(j) <= size(pick[i])

\* a summary of three files of one extension whose smallest member comes first in the
\* list of changes, so that the two listed files are not simply the first two
C2_Witness_ThreeInOneGroup ==
    /\ pc = "compressed"
    /\ IsSummaryReport(report)
    /\ Len(changes) = 3
    /\ Cardinality({ Extension(changes[k].path) : k \in DOMAIN changes }) = 1
    /\ changes[1].insertions + changes[1].deletions < changes[2].insertions + changes[2].deletions
    /\ changes[1].insertions + changes[1].deletions < changes[3].insertions + changes[3].deletions

(***************************************************************************)
(* Properties of the priority tag and of smart mode at the quick level     *)
(* (specification SpecPriority)                                            *)
(***************************************************************************)

LowKeywords ==
    { <<"t","e","s","t","_">>, <<"_","t","e","s","t",".">>, <<".","t","e","s","t",".">>, <<"s","p","e","c",".">>, <<".","s","p","e","c",".">>, <<"c","o","n","f","i","g",".">>, <<"s","e","t","u","p",".">>,
      <<"r","e","q","u","i","r","e","m","e","n","t","s",".">>, <<".","m","d">>, <<".","t","x","t">>, <<".","y","m","l">>, <<".","y","a","m","l">>, <<".","j","s","o","n">>, <<"m","i","g","r","a","t","i","o","n">>,
      <<"_","_","i","n","i","t","_","_">> }

HighKeywords ==
    { <<"s","e","r","v","i","c","e">>, <<"c","o","n","t","r","o","l","l","e","r">>, <<"a","p","i">>, <<"m","o","d","e","l">>, <<"h","a","n","d","l","e","r">>, <<"m","i","d","d","l","e","w","a","r","e">>, <<"a","u","t","h">>,
      <<"s","e","c","u","r","i","t","y">> }

\* the tag the rule of C3 gives a path
TagByRule(path) ==
    IF \E kw \in LowKeywords : Contains(Lower(path), kw) THEN "low"
    ELSE IF \E kw \in HighKeywords : Contains(Lower(path), kw) THEN "high"
    ELSE "normal"

\* the header line of a file in a smart report, and the file's whole segment
SmartHeaderText(f) ==
    <<"\n","U+2501","U+2501","U+2501"," ">> \o f.path \o <<" ","(">> \o f.change_type \o <<")"," ","+">> \o IntToStr(f.insertions)
        \o <<"/","-">> \o IntToStr(f.deletions) \o <<"\n">>

SmartSegmentText(f, lvl) ==
    SmartHeaderText(f)
        \o (IF f.diff = <<>> THEN <<>>
            ELSE _compress_diff_content(f.diff, lvl, f.change_type) \o <<"\n">>)

\* the segments of the files of `files' that are not tagged "low", in order
RECURSIVE RetainedSegments(_, _)
RetainedSegments(files, lvl) ==
    IF files = <<>> THEN <<>>
    ELSE (IF TagByRule(Head(files).path) = "low" THEN <<>>
          ELSE SmartSegmentText(Head(files), lvl))
         \o RetainedSegments(Tail(files), lvl)

\* C3: a path is tagged Low if its lower-cased form contains a low-priority keyword,
\* otherwise High if it contains a high-priority keyword, otherwise Normal, so
\* "auth_service.py" is High and "test_utils.py" is Low; and a smart report at the
\* Quick level is made of the header and body of every High or Normal file, in order,
\* and of nothing else: a Low file contributes neither header nor body.
C3_PriorityTagAndQuickSkipsLow ==
    /\ \A k \in DOMAIN changes :
          /\ _get_file_priority(changes[k].path) = TagByRule(changes[k].path)
          /\ changes[k].path = <<"a","u","t","h","_","s","e","r","v","i","c","e",".","p","y">> => _get_file_priority(changes[k].path) = "high"
          /\ changes[k].path = <<"t","e","s","t","_","u","t","i","l","s",".","p","y">> => _get_file_priority(changes[k].path) = "low"
    /\ (pc = "compressed" /\ level = QUICK /\ TotalChangedLines(changes) <= 200) =>
          /\ report = RetainedSegments(changes, QUICK)
          /\ \A k \in DOMAIN changes :
                IF TagByRule(changes[k].path) = "low"
                THEN ~Contains(report, changes[k].path)
                ELSE Contains(report, SmartSegmentText(changes[k], QUICK))

\* a Low file that also holds a high-priority keyword, and a High file, compressed
\* together at Quick: the report is the High file's segment alone
C3_Witness_LowSkippedHighKept ==
    /\ pc = "compressed"
    /\ level = QUICK
    /\ Len(changes) = 2
    /\ changes[1].path = <<"d","o","c","s","/","A","P","I",".","m","d">>
    /\ changes[2].path = <<"a","u","t","h","_","s","e","r","v","i","c","e",".","p","y">>
    /\ report = SmartSegmentText(changes[2], QUICK)
    /\ Len(report) > Len(SmartHeaderText(changes[2]))

(***************************************************************************)
(* Properties of minimal mode (specification SpecPriority)                 *)
(***************************************************************************)

\* the added lines of a diff that pass the importance filter, in diff order, each as
\* it is rendered: "+ " and the line's text without its sign and surrounding blanks
ImportantAddedLines(diff) ==
    LET lines == Split(diff, "\n")
        Text(l) == Strip(SubSeq(l, 2, Len(l)))
        Kept(l) == /\ l # <<>> /\ l[1] = "+"
                   /\ ~(Len(l) >= 3 /\ l[2] = "+" /\ l[3] = "+")
                   /\ _is_important_line(Text(l))
        kept == SelectSeq(lines, Kept)
    IN [k \in DOMAIN kept |-> <<"+"," ">> \o Take(Text(kept[k]), 100)]

MinimalHeaderText(f) ==
    <<"\n","U+2022"," ">> \o f.path \o <<" ","(">> \o f.change_type \o <<")"," ","+">> \o IntToStr(f.insertions)
        \o <<"/","-">> \o IntToStr(f.deletions) \o <<"\n">>

\* a file's part of a minimal report: its header line, then its first key lines
MinimalSegmentText(f) ==
    LET important == ImportantAddedLines(f.diff)
        keys == SubSeq(important, 1, IF Len(important) < 5 THEN Len(important) ELSE 5)
    IN MinimalHeaderText(f)
           \o (IF keys = <<>> THEN <<>>
               ELSE <<" "," ","U+D575","U+C2EC"," ","U+BCC0","U+ACBD",":","\n">>
                    \o Join([k \in DOMAIN keys |-> <<" "," "," "," ">> \o keys[k] \o <<"\n">>], <<>>))

\* the number of lines of a file's part that are key lines (they begin "    + ")
KeyLineCount(segment) ==
    LET lines == Split(segment, "\n")
    IN Cardinality({ k \in DOMAIN lines : StartsWith(lines[k], <<" "," "," "," ","+"," ">>) })

\* C8: in minimal mode every file of the input, Low-priority files included, gets one
\* header line with its path, change kind and +insertions/-deletions, followed by at
\* most 5 key lines, each an added line of the file's diff that passes the importance
\* filter, in diff order.
C8_MinimalHeaderAndFiveKeyLines ==
    (pc = "compressed" /\ IsMinimalReport(report)) =>
        /\ report = <<"U+1F4DD"," ","U+BCC0","U+ACBD"," ","U+D30C","U+C77C",":","\n">>
                    \o Join([k \in DOMAIN changes |-> MinimalSegmentText(changes[k])], <<>>)
        /\ \A k \in DOMAIN changes :
              /\ Contains(report, MinimalHeaderText(changes[k]))
              /\ KeyLineCount(MinimalSegmentText(changes[k])) <= 5
        /\ KeyLineCount(report) <= 5 * Len(changes)

\* a minimal report of a Low-priority file and of a file with more than 5 important
\* added lines
C8_Witness_LowFileAndSixthKeyLine ==
    /\ pc = "compressed"
    /\ IsMinimalReport(report)
    /\ Len(changes) = 2
    /\ TagByRule(changes[1].path) = "low"
    /\ Len(ImportantAddedLines(changes[2].diff)) > 5
    /\ KeyLineCount(report) >= 5

(***************************************************************************)
(* Properties of a file's body in smart mode (specification SpecDiff: one  *)
(* file, "main.py", whose segment is the whole report)                     *)
(***************************************************************************)

\* the removed lines of a diff that pass the importance filter, in diff order, each
\* as it is rendered: "- " and the line's text without its sign and surrounding blanks
ImportantRemovedLines(diff) ==
    LET lines == Split(diff, "\n")
        Text(l) == Strip(SubSeq(l, 2, Len(l)))
        Kept(l) == /\ l # <<>> /\ l[1] = "-"
                   /\ ~(Len(l) >= 3 /\ l[2] = "-" /\ l[3] = "-")
                   /\ _is_important_line(Text(l))
        kept == SelectSeq(lines, Kept)
    IN [k \in DOMAIN kept |-> <<"-"," ">> \o Take(Text(kept[k]), 100)]

\* the first n elements of s, or all of s when it has fewer
FirstN(s, n) == SubSeq(s, 1, IF Len(s) < n THEN Len(s) ELSE n)

\* the lines of the body of file f in the report: what lies between the file's header
\* and the newline closing the segment (no line at all for a file without diff text)
BodyLines(r, f) ==
    LET header == SmartHeaderText(f) IN
    IF Len(r) > Len(header) /\ StartsWith(r, header) /\ r[Len(r)] = "\n"
    THEN Split(SubSeq(r, Len(header) + 1, Len(r) - 1), "\n")
    ELSE <<>>

\* the only line of an empty body
NothingKept == << <<>> >>

\* C4: in smart mode, for a file whose kind is not Added, the body lists the removed
\* lines and the added lines that pass the importance filter, each list cut at
\* maxLines/2 entries (maxLines is 20 at Detailed and 10 at any other level); the
\* whole removed section (marker and lines) comes before the whole added section, and
\* a section is present only if it has at least one line.
C4_ChangedFileSections ==
    (pc = "compressed" /\ Len(changes) = 1 /\ changes[1].change_type # <<"A">>
        /\ changes[1].diff # <<>>) =>
        LET f == changes[1]
            half == (IF level = DETAILED THEN 20 ELSE 10) \div 2
            removed == FirstN(ImportantRemovedLines(f.diff), half)
            added == FirstN(ImportantAddedLines(f.diff), half)
            body == BodyLines(report, f)
            expected == (IF removed = <<>> THEN <<>> ELSE << <<"U+C81C","U+AC70","U+B428",":">> >> \o removed)
                        \o (IF added = <<>> THEN <<>> ELSE << <<"U+CD94","U+AC00","U+B428",":">> >> \o added)
        IN /\ body = IF expected = <<>> THEN NothingKept ELSE expected
           /\ Len(removed) <= half /\ Len(added) <= half
           /\ \A i, j \in DOMAIN body :
                 (body[i] = <<"U+CD94","U+AC00","U+B428",":">> /\ (body[j] = <<"U+C81C","U+AC70","U+B428",":">> \/ StartsWith(body[j], <<"-"," ">>)))
                     => j < i

\* a modified file with more removed and more added important lines than the cut at
\* Quick allows: both sections are present, five lines each
C4_Witness_BothSectionsCut ==
    /\ pc = "compressed"
    /\ level = QUICK
    /\ Len(changes) = 1
    /\ changes[1].change_type = <<"M">>
    /\ Len(ImportantRemovedLines(changes[1].diff)) > 5
    /\ Len(ImportantAddedLines(changes[1].diff)) > 5
    /\ Len(BodyLines(report, changes[1])) = 12

\* the keywords of a signature line
SignatureKeywords ==
    { <<"d","e","f"," ">>, <<"c","l","a","s","s"," ">>, <<"f","u","n","c","t","i","o","n"," ">>, <<"c","o","n","s","t"," ">>, <<"l","e","t"," ">>, <<"v","a","r"," ">>, <<"p","u","b","l","i","c"," ">>,
      <<"p","r","i","v","a","t","e"," ">>, <<"p","r","o","t","e","c","t","e","d"," ">>, <<"a","s","y","n","c"," ">>, <<"@">> }

\* the signature lines of a diff, in diff order, each as it is rendered: the line
\* without its leading "+" signs and surrounding blanks, cut at 120 characters
SignatureLines(diff) ==
    LET lines == Split(diff, "\n")
        Text(l) == Strip(LStrip(l, {"+"}))
        Kept(l) == /\ \E kw \in SignatureKeywords : Contains(Text(l), kw)
                   /\ (Contains(Text(l), <<"(">>) \/ Contains(Text(l), <<"c","l","a","s","s"," ">>))
        kept == SelectSeq(lines, Kept)
    IN [k \in DOMAIN kept |-> Take(Text(kept[k]), 120)]

\* C5: in smart mode, for a file whose kind is Added, the body holds at most N
\* signature lines (N is 15 at Detailed and 8 at any other level), the first ones in
\* diff order, under the marker of new definitions; only when the diff has no
\* signature line at all does the body hold instead the lines selected by the
\* importance filter (the first 10 important added lines).
C5_AddedFileSignaturesOrFallback ==
    (pc = "compressed" /\ Len(changes) = 1 /\ changes[1].change_type = <<"A">>
        /\ changes[1].diff # <<>>) =>
        LET f == changes[1]
            N == IF level = DETAILED THEN 15 ELSE 8
            signatures == SignatureLines(f.diff)
            important == ImportantAddedLines(f.diff)
            body == BodyLines(report, f)
        IN IF signatures # <<>>
           THEN /\ body = << <<"U+C0C8","U+B85C","U+C6B4"," ","U+C815","U+C758",":">> >> \o FirstN(signatures, N)
                /\ Len(body) - 1 <= N
           ELSE /\ body = IF important = <<>> THEN NothingKept ELSE FirstN(important, 10)
                /\ \A i \in DOMAIN body : body[i] # <<"U+C0C8","U+B85C","U+C6B4"," ","U+C815","U+C758",":">>

\* an added file with more signature lines than N at the Normal level: 8 of them are
\* kept under the marker
C5_Witness_SignaturesCutAtEight ==
    /\ pc = "compressed"
    /\ level = NORMAL
    /\ Len(changes) = 1
    /\ changes[1].change_type = <<"A">>
    /\ Len(SignatureLines(changes[1].diff)) > 15
    /\ Len(BodyLines(report, changes[1])) = 9

\* C7: for every file, level and diff text, the body of the file produced by smart
\* mode has at most 30 lines.
C7_BodyAtMostThirtyLines ==
    (pc = "compressed" /\ Len(changes) = 1) =>
        /\ Len(BodyLines(report, changes[1])) <= 30
        /\ Len(Split(report, "\n")) <= 33

\* a modified file with 16 important removed and 16 important added lines, at the
\* Detailed level: 34 lines were found, and the body is shorter
C7_Witness_ThirtyFourLinesFound ==
    /\ pc = "compressed"
    /\ level = DETAILED
    /\ Len(changes) = 1
    /\ changes[1].change_type = <<"M">>
    /\ Len(ImportantRemovedLines(changes[1].diff)) + Len(ImportantAddedLines(changes[1].diff)) + 2 > 30
    /\ Len(BodyLines(report, changes[1])) \in 1..30

(***************************************************************************)
(* Properties of the line-importance filter (specification SpecLine)       *)
(***************************************************************************)

NoiseTokens ==
    { <<"i","m","p","o","r","t"," ">>, <<"f","r","o","m"," ">>, <<"#">>, <<"/","/">>, <<"/","*">>, <<"*","/">>, <<"{">>, <<"}">>, <<"(">>, <<")">>, <<"[">>, <<"]">>,
      <<";">>, <<"\"","\"","\"">>, <<"'","'","'">>, <<"p","a","s","s">>, <<"c","o","n","s","o","l","e",".","l","o","g">> }

SignalTokens ==
    { <<"d","e","f"," ">>, <<"c","l","a","s","s"," ">>, <<"f","u","n","c","t","i","o","n"," ">>, <<"r","e","t","u","r","n"," ">>, <<"i","f"," ">>, <<"e","l","s","e">>, <<"f","o","r"," ">>, <<"w","h","i","l","e"," ">>,
      <<"t","r","y">>, <<"c","a","t","c","h">>, <<"=">>, <<"a","w","a","i","t"," ">>, <<"a","s","y","n","c"," ">>, <<"@">> }

\* C6: the filter accepts a line if and only if the line has at least 3 characters
\* after trimming, its trimmed, lower-cased form neither equals nor starts with a
\* noise token, and it contains at least one signal token; "    # just a comment" is
\* rejected, "if user.active:" is accepted, and every line with fewer than 3
\* characters after trim is rejected.
C6_AcceptsIffLongCleanAndSignal ==
    pc = "filtered" =>
        LET trimmed == Strip(line)
            trimmed_lower == Strip(Lower(line))
        IN /\ accepted <=>
                 /\ Len(trimmed) >= 3
                 /\ \A t \in NoiseTokens :
                       trimmed_lower # t /\ ~StartsWith(trimmed_lower, t)
                 /\ \E t \in SignalTokens : Contains(line, t)
           /\ line = <<" "," "," "," ","#"," ","j","u","s","t"," ","a"," ","c","o","m","m","e","n","t">> => ~accepted
           /\ line = <<"i","f"," ","u","s","e","r",".","a","c","t","i","v","e",":">> => accepted
           /\ Len(trimmed) < 3 => ~accepted

(***************************************************************************)
(* Properties of the scenario of "handler.py" (specification SpecScenario) *)
(***************************************************************************)

\* the text of the added line of a diff that defines a function, without its sign and
\* surrounding blanks
DefinitionText(diff) ==
    LET lines == Split(diff, "\n")
        k == CHOOSE k \in DOMAIN lines :
                 StartsWith(lines[k], <<"+">>) /\ Contains(lines[k], <<"d","e","f"," ">>)
    IN Strip(SubSeq(lines[k], 2, Len(lines[k])))

\* the smart report of one file of a kind other than Added, with a diff text
ChangedFileReport(f, lvl) ==
    LET half == (IF lvl = DETAILED THEN 20 ELSE 10) \div 2
        removed == FirstN(ImportantRemovedLines(f.diff), half)
        added == FirstN(ImportantAddedLines(f.diff), half)
    IN SmartHeaderText(f)
           \o Join((IF removed = <<>> THEN <<>> ELSE << <<"U+C81C","U+AC70","U+B428",":">> >> \o removed)
                   \o (IF added = <<>> THEN <<>> ELSE << <<"U+CD94","U+AC00","U+B428",":">> >> \o added), <<"\n">>)
           \o <<"\n">>

\* the template of each level, around the report
PromptOf(r, lvl) ==
    IF lvl = QUICK THEN QUICK_REVIEW_PROMPT_HEAD \o r \o QUICK_REVIEW_PROMPT_TAIL
    ELSE IF lvl = NORMAL THEN NORMAL_REVIEW_PROMPT_HEAD \o r \o NORMAL_REVIEW_PROMPT_TAIL
    ELSE DETAILED_REVIEW_PROMPT_HEAD \o r \o DETAILED_REVIEW_PROMPT_TAIL

\* what C9 says of review: the provider is called once, with exactly the report of
\* compress, which it embeds in the template of the level
ReviewPassesReport ==
    pc = "reviewed" =>
        LET r == ChangedFileReport(changes[1], level) IN
        /\ Len(provider_calls) = 1
        /\ provider_calls[1].compressed_diff = r
        /\ provider_calls[1].level = level
        /\ provider_calls[1].prompt = PromptOf(r, level)
        /\ review_result.status = "returned" => review_result.compressed_diff = r

\* C9 as stated: for the modified file "handler.py" (+12/-3) whose diff has an added
\* function-definition line and a removed line, compress at Quick returns a non-empty
\* smart report of at most 30 lines that contains the header with the path, the
\* removed marker and the text of the function-definition line; and review passes
\* exactly that report to the provider, which embeds it in the level's template.
C9_ScenarioAsStated ==
    /\ (pc = "compressed" /\ level = QUICK) =>
          /\ report # <<>>
          /\ IsSmartReport(report)
          /\ Len(BodyLines(report, changes[1])) <= 30
          /\ StartsWith(report, SmartHeaderText(changes[1]))
          /\ Contains(report, <<"U+C81C","U+AC70","U+B428">>)
          /\ Contains(report, DefinitionText(changes[1].diff))
    /\ ReviewPassesReport

\* C9 amended: the report is non-empty, smart, of at most 30 lines and begins with the
\* header with the path; it contains the removed marker exactly when a removed line of
\* the diff passes the importance filter, and the function-definition line (as
\* "+ " and its text) exactly when that line is among the first 5 added lines that
\* pass the filter; review passes exactly that report to the provider, which embeds it
\* in the level's template.
C9_ScenarioMarkerAndDefinitionWhenKept ==
    /\ (pc = "compressed" /\ level = QUICK) =>
          LET f == changes[1]
              definition == <<"+"," ">> \o DefinitionText(f.diff)
              first_added == FirstN(ImportantAddedLines(f.diff), 5)
          IN /\ report # <<>>
             /\ IsSmartReport(report)
             /\ report = ChangedFileReport(f, QUICK)
             /\ Len(BodyLines(report, f)) <= 30
             /\ StartsWith(report, SmartHeaderText(f))
             /\ Contains(report, <<"U+C81C","U+AC70","U+B428">>) <=> ImportantRemovedLines(f.diff) # <<>>
             /\ Contains(report, definition) <=>
                    \E k \in DOMAIN first_added : first_added[k] = definition
    /\ ReviewPassesReport

\* the scenario compressed at Quick with a removed line that passes the filter and the
\* definition as sixth added line after five that do not pass: marker and definition
\* are both in the report
C9_Witness_MarkerAndDefinition ==
    /\ pc = "compressed"
    /\ level = QUICK
    /\ changes[1].path = <<"h","a","n","d","l","e","r",".","p","y">>
    /\ Contains(report, <<"U+C81C","U+AC70","U+B428",":","\n","-"," ","r","e","t","u","r","n"," ","N","o","n","e","\n">>)
    /\ Contains(report, <<"U+CD94","U+AC00","U+B428",":","\n","+"," ","d","e","f"," ","h","a","n","d","l","e","(","r","e","q",")",":","\n">>)
    /\ Contains(changes[1].diff, <<"#"," ","s","t","e","p","\n","+","d","e","f"," ","h","a","n","d","l","e","(","r","e","q",")",":">>)


(***************************************************************************)
(* Properties of repeated calls (specification Spec)                       *)
(***************************************************************************)

C13_AddedFileCountsItsLines ==
    LET \* the FileChanges the reader that ran has returned
        ReportedChanges ==
            IF pc \in {"staged read", "unstaged read"} THEN changes
            ELSE IF pc = "all read" THEN change_set.staged_files \o change_set.unstaged_files
            ELSE << >>
    IN
    \A k \in 1..Len(ReportedChanges) :
        LET fc == ReportedChanges[k] IN
        fc.change_type = <<"A">> =>
            LET \* the number of lines of the file: a line ends with a newline, the
                \* last line may do without
                N == Len(SplitLines(ReadFile(repo, fc.path)))
                body == SplitLines(fc.diff)
            IN  /\ fc.insertions = N
                /\ fc.deletions = 0
                /\ Len(body) = N
                /\ \A i \in 1..Len(body) : StartsWith(body[i], <<"+">>)

\* C14: every FileChange a reader produces whose insertions + deletions is 0 has an
\* empty diff text, and insertions and deletions are never negative.
C14_NoCountsOnlyWithEmptyDiff ==
    LET \* the FileChanges the reader that ran has returned
        ReportedChanges ==
            IF pc \in {"staged read", "unstaged read"} THEN changes
            ELSE IF pc = "all read" THEN change_set.staged_files \o change_set.unstaged_files
            ELSE << >>
    IN
    \A k \in 1..Len(ReportedChanges) :
        LET fc == ReportedChanges[k] IN
        /\ fc.insertions + fc.deletions = 0 => fc.diff = << >>
        /\ fc.insertions >= 0
        /\ fc.deletions >= 0

\* C15: get_staged_changes returns exactly one FileChange for every path whose
\* index status code is A, M, D or R, and the change kind of that FileChange is the
\* status code; no such path is left out.
C15_OneChangePerStagedPath ==
    pc = "staged read" =>
        \A i \in 1..Len(repo) :
            repo[i].status[1] \in {"A", "M", "D", "R"} =>
                LET found == { k \in 1..Len(changes) :
                                 changes[k].path \in {repo[i].path, Drop(repo[i].status, 3)} }
                IN  /\ Cardinality(found) = 1
                    /\ \A k \in found : changes[k].change_type = << repo[i].status[1] >>

(***************************************************************************)
(* Properties of a run (specification SpecRun)                             *)
(***************************************************************************)

\* C12: at every point of a run after the ChangeSet is built, also after the
\* --files filter and after the unstaged files are dropped, total_insertions is the
\* sum of the insertions of staged_files and unstaged_files, total_deletions the
\* sum of their deletions, and total_files the number of files in the two lists.
C12_TotalsMatchLists ==
    change_set.built =>
        LET all_files == change_set.staged_files \o change_set.unstaged_files IN
        /\ change_set.total_insertions = SumInsertions(all_files)
        /\ change_set.total_deletions = SumDeletions(all_files)
        /\ change_set.total_files = Len(all_files)

\* the code the process ended with, once the run has ended
Exited == run.pc = "exited"
ExitCode == run.exit_code[1]

\* C16: in every run that ends in failure (exit code 1) or user interrupt (exit code
\* 130), no commit has been created.
C16_NoCommitWhenFailedOrInterrupted ==
    Exited /\ ExitCode \in {1, 130} => run.commits = << >>

\* C17: when the code review step fails, the run goes on to the generation of the
\* commit message if --review-only was not given, and with --review-only it ends
\* with exit code 1, no message generated and no commit created; a run that has
\* ended takes no further step.
C17_ReviewFailureEndsOnlyReviewOnly ==
    [][ /\ run.pc # "exited"
        /\ ReviewStep /\ run'.review_failed =>
              IF run.args.review_only
              THEN /\ run'.pc = "exited"
                   /\ run'.exit_code = << 1 >>
                   /\ ~run'.generated
                   /\ run'.commits = << >>
                   /\ \A i \in 1..Len(run'.invocations) :
                          run'.invocations[i].method # "generate_commit_message"
              ELSE /\ run'.pc = "generate"
                   /\ run'.exit_code = << >> ]_vars

\* the review failed, the run went on and the message was generated
C17_Witness_MessageAfterFailedReview ==
    /\ run.review_failed
    /\ ~run.args.review_only
    /\ run.generated
    /\ Len(run.invocations) = 2
    /\ run.invocations[1].method = "review_code"
    /\ run.invocations[1].raised
    /\ run.invocations[2].method = "generate_commit_message"

\* C18 as stated: every run ends with exit code 0, 1 or 130 and no other.
C18_ExitCodeZeroOneOr130 ==
    Exited => ExitCode \in {0, 1, 130}

\* C18: every run ends with exit code 0, 1, 2 or 130: 2 exactly when argparse
\* rejects the command line, before the try block of main(); 0 exactly on success
\* or a no-op (--help, no changes, nothing to commit, dry-run, a review-only run
\* whose review did not fail, the user declines the commit, the commit is created
\* and reported); 1 on any failure (invalid configuration, a failed review with
\* --review-only, failed generation of the message, empty edited message, failed
\* commit, any unexpected exception, among them the directory that is no repository
\* and the attempt to stage); 130 exactly on a user interrupt.
C18_ExitCodeByCase ==
    Exited =>
        /\ ExitCode \in {0, 1, 2, 130}
        /\ ExitCode = 2 <=> run.why = "usage error"
        /\ ExitCode = 130 <=> run.why = "interrupt"
        /\ ExitCode = 0 <=> run.why \in {"help", "no changes", "nothing to commit", "dry run",
                                         "review only", "declined", "committed"}
        /\ ExitCode = 1 <=> run.why \in {"invalid configuration", "not a repository",
                                         "staging failed", "review failed", "generation failed",
                                         "empty message", "commit failed", "exception"}
        /\ run.why = "usage error" <=> run.args.usage = "error"
        /\ run.why = "invalid configuration" => ~validate(run.env)
        /\ run.why = "no changes" => repo = << >>
        /\ run.why = "nothing to commit" => run.files_to_commit = << >>
        /\ run.why = "review failed" => run.args.review_only /\ run.review_failed
        /\ run.why = "review only" => run.args.review_only /\ ~run.review_failed
        /\ run.why = "generation failed" => ~run.generated
        /\ run.why = "dry run" => run.args.dry_run /\ run.generated
        /\ run.why \in {"declined", "empty message"} => ~run.args.auto_yes /\ run.commits = << >>
        /\ run.why = "commit failed" => run.commits = << >>
        /\ run.why = "committed" => Len(run.commits) = 1

\* a run that created its commit has ended with 0
C18_Witness_CommittedRunExitsZero ==
    /\ Exited
    /\ ExitCode = 0
    /\ run.why = "committed"
    /\ Len(run.commits) = 1

\* C19: if the validation of the configuration fails (the credential of the
\* provider is missing, ai.temperature is outside [0, 1], ai.max_tokens <= 0 or
\* commit.max_subject_length <= 0), the run ends with exit code 1 before any read of
\* the repository, staging, remote model call or commit (main() stages nothing in
\* any run: see HandleUnstaged).
C19_InvalidConfigurationEndsBeforeAnyEffect ==
    LET fails == \/ ~run.env.api_key
                 \/ run.env.temperature < 0 \/ run.env.temperature > 10
                 \/ run.env.max_tokens <= 0
                 \/ run.env.max_subject_length <= 0
    IN
    /\ fails =>
          /\ run.pc \in {"parse_args", "load_config", "exited"}
          /\ run.repo_reads = 0
          /\ ~change_set.built
          /\ run.invocations = << >>
          /\ run.commits = << >>
    /\ run.why = "invalid configuration" <=> Exited /\ ExitCode = 1 /\ fails /\ run.why # "exception"
    /\ Exited /\ fails /\ run.args.usage = "ok" =>
          run.why \in {"invalid configuration", "interrupt", "exception"}

\* validate() returned False for a temperature of 1.1 and the run has ended with 1
C19_Witness_InvalidConfigurationExit ==
    /\ Exited
    /\ run.env.temperature = 11
    /\ run.why = "invalid configuration"
    /\ ExitCode = 1
    /\ run.repo_reads = 0

\* C20: each provider invocation (review_code or generate_commit_message of the
\* OpenAI, the Anthropic or the Gemini provider) makes exactly one remote call and
\* never retries: when the call fails, the invocation raises without a second call.
C20_OneRemoteCallPerInvocation ==
    \A i \in 1..Len(run.invocations) :
        LET inv == run.invocations[i] IN
        /\ Len(inv.remote_calls) = 1
        /\ inv.raised /\ inv.method = "review_code" => run.review_failed
        /\ inv.raised /\ inv.method = "generate_commit_message" =>
              ~run.generated /\ run.why = "generation failed"

\* generate_commit_message of the Gemini provider raised after its one call, in a
\* run whose review_code had returned
C20_Witness_FailedCallNotRepeated ==
    /\ Len(run.invocations) = 2
    /\ ~run.invocations[1].raised
    /\ run.invocations[2].raised
    /\ run.invocations[2].provider = "gemini"
    /\ run.invocations[2].remote_calls = << "generate_content" >>

(***************************************************************************)
(* Properties of the remote calls and of the prompts                       *)
(***************************************************************************)

\* the remote calls of the run, in the order they were made
RemoteCalls == ConcatAll([i \in DOMAIN run.invocations |-> run.invocations[i].remote_calls])

\* C21 as stated: in every run the remote model API is called at most once
C21_AtMostOneRemoteCall == Len(RemoteCalls) <= 1

\* C21: in every run the remote model API is called at most once for the review
\* and at most once for the commit message, the review first, so at most twice;
\* the step that makes a remote call performs no repository operation (no read
\* of the repository, no commit)
C21_OneRemoteCallPerTask ==
    /\ [](/\ Len(RemoteCalls) <= 2
          /\ \A i, j \in DOMAIN run.invocations :
                run.invocations[i].method = run.invocations[j].method => i = j
          /\ \A i \in DOMAIN run.invocations :
                run.invocations[i].method = "review_code" => i = 1)
    /\ [][run'.invocations # run.invocations
             => run'.repo_reads = run.repo_reads /\ run'.commits = run.commits]_vars

\* a run that reviewed, generated a message and committed: two remote calls
C21_Witness_ReviewThenMessage ==
    /\ run.pc = "exited" /\ run.why = "committed"
    /\ Len(run.invocations) = 2
    /\ run.invocations[1].method = "review_code"
    /\ run.invocations[2].method = "generate_commit_message"
    /\ Len(RemoteCalls) = 2
    /\ run.repo_reads = 2 /\ Len(run.commits) = 1

\* C22: for both tasks, the review and the commit message, the prompt sent to the
\* model holds the CompressedReport that DiffCompressor.compress produced for the
\* files to commit: that report is the text put into the template
C22_PromptsHoldCompressedReport ==
    \A i \in DOMAIN run.invocations :
        LET invocation == run.invocations[i] IN
        \E lvl \in Levels :
            /\ compress(invocation.files, lvl) # <<>>
            /\ Contains(invocation.prompt, compress(invocation.files, lvl))

(***************************************************************************)
(* Properties of the configuration (specification SpecConfig)              *)
(***************************************************************************)

\* the section dicts of DEFAULT_CONFIG hold what the class statement wrote
DefaultsAsWritten ==
    \A section \in DOMAIN DEFAULT_CONFIG :
        configs.heap[configs.DEFAULT_CONFIG[section]] = DEFAULT_CONFIG[section]

\* the configuration of a manager is the layering of the environment and the
\* file it was built from over the defaults as written
Layered(manager) ==
    LET file == IF manager.file.state = "loaded" THEN manager.file.content ELSE << >>
        FileSets(section, key) == section \in DOMAIN file /\ key \in DOMAIN file[section]
        \* what the variables of the environments say: a model name, tenths, a count
        Environment(key) ==
            CASE key = "model" /\ manager.env.AI_MODEL = << <<"c","l","a","u","d","e","-","3">> >> -> << <<"c","l","a","u","d","e","-","3">> >>
              [] key = "temperature" /\ manager.env.AI_TEMPERATURE = << <<"0",".","9">> >> -> << 9 >>
              [] key = "temperature" /\ manager.env.AI_TEMPERATURE = << <<"1">> >> -> << 10 >>
              [] key = "max_tokens" /\ manager.env.AI_MAX_TOKENS = << <<"1","0","0">> >> -> << 100 >>
              [] OTHER -> << >>
        Holds(section, key, value) ==
            /\ section \in DOMAIN manager.config
            /\ key \in DOMAIN configs.heap[manager.config[section]]
            /\ configs.heap[manager.config[section]][key] = value
    IN  /\ \A section \in DOMAIN DEFAULT_CONFIG : \A key \in DOMAIN DEFAULT_CONFIG[section] :
              Holds(section, key,
                    IF section = "ai" /\ Environment(key) # << >> THEN Environment(key)[1]
                    ELSE IF FileSets(section, key) THEN file[section][key]
                    ELSE DEFAULT_CONFIG[section][key])
        /\ \A section \in DOMAIN file : \A key \in DOMAIN file[section] :
              section \notin DOMAIN DEFAULT_CONFIG => Holds(section, key, file[section][key])

C24_StagedOnlyPassesStagedFiles ==
    run.args.staged_only =>
        /\ \A i \in DOMAIN run.invocations :
              \A k \in DOMAIN run.invocations[i].files :
                 \E j \in DOMAIN get_staged_changes(repo) :
                    run.invocations[i].files[k] = get_staged_changes(repo)[j]
        /\ run.why # "staging failed"

(***************************************************************************)
(* Properties of the failures of the readers (specification SpecReader)    *)
(***************************************************************************)

C26_StagingContinuesTheRun ==
    [][ (/\ run.pc = "unstaged"
         /\ change_set.unstaged_files # <<>>
         /\ ~run.args.staged_only
         /\ run'.why \notin {"interrupt", "exception"})
        => /\ run'.why # "staging failed"
           /\ (run.env.auto_add /\ ~run.args.no_add) =>
                 /\ run'.pc \in {"review", "generate"}
                 /\ run'.files_to_commit = change_set.staged_files \o change_set.unstaged_files
      ]_vars

(***************************************************************************)
(* Properties of the commit (specification SpecRun)                        *)
(***************************************************************************)

\* C27: in every run the commit operation is invoked at most once, and only when
\* neither --dry-run nor --review-only was given, files_to_commit is not empty, the
\* generation of the message returned, and the user confirmed (answer y or e) or
\* --auto-yes was given; a run with --dry-run or --review-only and a run in which the
\* user answers n never commit.
C27_CommitOnceAndOnlyWhenConfirmed ==
    /\ [](/\ Len(run.commits) <= 1
          /\ (run.pc = "commit" \/ run.commits # << >>) =>
                /\ ~run.args.dry_run
                /\ ~run.args.review_only
                /\ run.files_to_commit # << >>
                /\ run.generated
                /\ run.args.auto_yes \/ run.choice \in {"y", "e"}
          /\ (run.args.dry_run \/ run.args.review_only \/ run.choice = "n") =>
                run.commits = << >>)
    /\ [][ run'.commits # run.commits => run.pc = "commit" /\ run.commits = << >> ]_vars

\* the user answered y to the prompt and the one commit of the run was created
C27_Witness_CommittedAfterAnswer ==
    /\ Exited /\ run.why = "committed"
    /\ ~run.args.auto_yes /\ run.choice = "y"
    /\ Len(run.commits) = 1
    /\ run.commits[1] = <<"f","i","x",":"," ","r","e","t","r","y">>
    /\ run.invocations # << >>

\* C28: a commit is never created with an empty or whitespace-only message: whether
\* the message was generated or typed in edit mode, and whether the confirmation came
\* from the prompt or from --auto-yes, an empty message cancels the commit with exit
\* code 1.
C28_NoCommitWithEmptyMessage ==
    /\ \A i \in 1..Len(run.commits) : Strip(run.commits[i]) # << >>
    /\ (run.pc \in {"commit", "commit_created"} \/ (Exited /\ run.why = "committed")) =>
          Strip(run.commit_message) # << >>

(***************************************************************************)
(* Properties of the two partitions (specification SpecReader)             *)
(***************************************************************************)

\* C29: no path is reported more than once in a ChangeSet: a path of the staged
\* partition is never also a path of the unstaged partition (for any two-character
\* status code such as AM or MM), so that files_to_commit = staged_files +
\* unstaged_files holds each changed file once.
C29_EachPathOnce ==
    pc = "all read" =>
        LET files == change_set.staged_files \o change_set.unstaged_files IN
        \A i, j \in 1..Len(files) : files[i].path = files[j].path => i = j

(***************************************************************************)
(* Properties of the defaults (specification SpecConfig)                   *)
(***************************************************************************)

\* C30: ConfigManager.DEFAULT_CONFIG is never modified: the construction of a
\* ConfigManager, with or without a file and with or without AI_MODEL, AI_TEMPERATURE
\* and AI_MAX_TOKENS in the environment, leaves every value of DEFAULT_CONFIG, the
\* nested 'ai' section included, as it was, so that a ConfigManager built later without
\* those variables (and without an 'ai' section in its file) has the original defaults.
C30_DefaultConfigIsNeverModified ==
    /\ DOMAIN configs.DEFAULT_CONFIG = DOMAIN DEFAULT_CONFIG
    /\ \A section \in DOMAIN DEFAULT_CONFIG :
          configs.heap[configs.DEFAULT_CONFIG[section]] = DEFAULT_CONFIG[section]
    /\ \A i \in DOMAIN configs.managers :
          LET manager == configs.managers[i] IN
          (/\ manager.env = [AI_MODEL |-> << >>, AI_TEMPERATURE |-> << >>, AI_MAX_TOKENS |-> << >>]
           /\ manager.file.state = "loaded" => "ai" \notin DOMAIN manager.file.content)
          => configs.heap[manager.config.ai] = DEFAULT_CONFIG.ai
=============================================================================
